---- MODULE Spec2Model ----
(***************************************************************************)
(* A model of the PetukhPlusPlus toolchain: semantic analyzer, RPN (POLIZ)  *)
(* generator and stack VM, run as a pipeline over a bounded set of ASTs.    *)
(* Strings of the program (node text, labels, variable names, literals)    *)
(* are sequences of one-character strings, so that conversions between      *)
(* text and numbers are computed and not assumed.                           *)
(***************************************************************************)
EXTENDS Integers, Sequences, FiniteSets, TLC

\* ------------------------------------------------------------------ bounds

\* Largest number of instructions one VM::Run executes in the model.
MaxSteps == 150

\* Largest value the environment supplies on standard input.
MaxInput == 1

\* ----------------------------------------------------------------- strings

Last(s) == s[Len(s)]

Front(s) == SubSeq(s, 1, Len(s) - 1)

Digits == <<"0", "1", "2", "3", "4", "5", "6", "7", "8", "9">>

DigitVal(c) == CHOOSE d \in 0..9 : Digits[d + 1] = c

IsDigit(c) == \E d \in 1..10 : Digits[d] = c

RECURSIVE NatToString(_)
NatToString(n) ==
  IF n < 10 THEN <<Digits[n + 1]>>
  ELSE NatToString(n \div 10) \o <<Digits[(n % 10) + 1]>>

\* std::to_string on a signed integer
to_string(n) == IF n < 0 THEN <<"-">> \o NatToString(-n) ELSE NatToString(n)

\* the decimal digits of INT64_MAX (the model's own integers are narrower, so
\* the range check of stoll is made on the digits)
INT64_MAX_DIGITS ==
  <<"9", "2", "2", "3", "3", "7", "2", "0", "3", "6", "8", "5", "4", "7", "7", "5",
    "8", "0", "7">>

RECURSIVE StripLeadingZeros(_)
StripLeadingZeros(ds) ==
  IF Len(ds) > 1 /\ Head(ds) = "0" THEN StripLeadingZeros(Tail(ds)) ELSE ds

\* digit strings of equal length: x > y
RECURSIVE DigitsGreater(_, _)
DigitsGreater(x, y) ==
  IF x = <<>> THEN FALSE
  ELSE IF Head(x) # Head(y) THEN DigitVal(Head(x)) > DigitVal(Head(y))
  ELSE DigitsGreater(Tail(x), Tail(y))

\* the magnitude written by digits ds exceeds INT64_MAX (+ 1 when extra = 1)
OutOfRange(ds, extra) ==
  LET d == StripLeadingZeros(ds)
      lim == IF extra = 1 THEN Front(INT64_MAX_DIGITS) \o <<"8">> ELSE INT64_MAX_DIGITS
  IN Len(d) > Len(lim) \/ (Len(d) = Len(lim) /\ DigitsGreater(d, lim))

\* the digits of s from position i on, up to the first non-digit
RECURSIVE DigitRun(_, _)
DigitRun(s, i) ==
  IF i > Len(s) \/ ~IsDigit(s[i]) THEN <<>>
  ELSE <<s[i]>> \o DigitRun(s, i + 1)

RECURSIVE DigitsValue(_, _)
DigitsValue(ds, acc) ==
  IF ds = <<>> THEN acc ELSE DigitsValue(Tail(ds), acc * 10 + DigitVal(Head(ds)))

IsSpace(c) == c \in {" ", "\t", "\n", "\r"}

RECURSIVE SkipSpace(_, _)
SkipSpace(s, i) == IF i <= Len(s) /\ IsSpace(s[i]) THEN SkipSpace(s, i + 1) ELSE i

\* std::stoll inside try/catch(...): [ok, v]; ok is FALSE when stoll throws
\* (no digits, or a value out of range).
stoll(s) ==
  LET i0  == SkipSpace(s, 1)
      neg == i0 <= Len(s) /\ s[i0] = "-"
      i1  == IF i0 <= Len(s) /\ s[i0] \in {"+", "-"} THEN i0 + 1 ELSE i0
      ds  == DigitRun(s, i1)
  IN IF ds = <<>> THEN [ok |-> FALSE, v |-> 0]
     ELSE IF OutOfRange(ds, IF neg THEN 1 ELSE 0) THEN [ok |-> FALSE, v |-> 0]
     ELSE LET v == DigitsValue(ds, 0) IN [ok |-> TRUE, v |-> IF neg THEN -v ELSE v]

\* ------------------------------------------------------------------- AST

\* struct ASTNode: kind, text, isArray, children
ASTNode(kind, text, isArray, children) ==
  [kind |-> kind, text |-> text, isArray |-> isArray, children |-> children]

make_node(kind, text) == ASTNode(kind, text, FALSE, <<>>)

\* an empty unique_ptr child (For leaves absent slots null)
NullNode == ASTNode("Null", <<>>, FALSE, <<>>)

IsNull(n) == n.kind = "Null"

\* static IsFloatingLiteral: the literal contains '.', 'e' or 'E'
IsFloatingLiteral(s) == \E i \in 1..Len(s) : s[i] \in {".", "e", "E"}

\* TLC evaluates an operator's argument where it is first used. Testing a value
\* evaluates it at once, so the state threaded through a list of statements is
\* computed step by step instead of as one nested evaluation. Always TRUE.
Evaluated(v) == v = v

\* ------------------------------------------------------------- generator

Instruction(op, arg) == [op |-> op, arg |-> arg]

\* RPNGenerator's fields after the clears at the top of Generate
GenInit ==
  [code_ |-> <<>>, labelCounter_ |-> 0, breakLabels_ |-> <<>>, continueLabels_ |-> <<>>]

Emit(g, op, arg) == [g EXCEPT !.code_ = Append(@, Instruction(op, arg))]

\* the label NewLabel returns in generator state g
NewLabel(g) == <<"L">> \o to_string(g.labelCounter_)

\* the generator state after that NewLabel call
Bump(g) == [g EXCEPT !.labelCounter_ = @ + 1]

PushLoop(g, brk, cont) ==
  [g EXCEPT !.breakLabels_ = Append(@, brk), !.continueLabels_ = Append(@, cont)]

\* a generator that leaves the labels of a finished loop on the stacks
PopLoopKept(g) == g

PopLoop(g) ==
  [g EXCEPT !.breakLabels_ = Front(@), !.continueLabels_ = Front(@)]

BinaryOpCode(text) ==
  CASE text = <<"+">> -> "ADD"
    [] text = <<"-">> -> "SUB"
    [] text = <<"*">> -> "MUL"
    [] text = <<"/">> -> "DIV"
    [] text = <<"%">> -> "MOD"
    [] text = <<"=", "=">> -> "EQ"
    [] text = <<"!", "=">> -> "NEQ"
    [] text = <<"<">> -> "LT"
    [] text = <<">">> -> "GT"
    [] text = <<"<", "=">> -> "LE"
    [] text = <<">", "=">> -> "GE"
    [] OTHER -> "NONE"

UnaryOpCode(text) ==
  IF text = <<"-">> THEN "NEG" ELSE IF text = <<"!">> THEN "NOT" ELSE "NONE"

\* emit the operator's instruction after its operands, when it has one
EmitUnless(g, op) == IF op = "NONE" THEN g ELSE Emit(g, op, <<>>)

\* the POP decision of the ExprStmt case (and of the For step)
NeedsPop(expr) == expr.kind # "Call" /\ expr.kind # "Assign"

\* g is the state after the expression's code
EmitPopIf(g, expr) == IF NeedsPop(expr) THEN Emit(g, "POP", <<>>) ELSE g

RECURSIVE GenExpression(_, _)
RECURSIVE GenExprList(_, _, _)
RECURSIVE GenStatement(_, _)
RECURSIVE GenStmtList(_, _, _)
RECURSIVE GenVarDecls(_, _, _)
RECURSIVE GenIf(_, _)
RECURSIVE GenIfRest(_, _, _, _)

\* the end of one declarator: g is the state after its initial value's code
EmitVarStore(g, var) ==
  Emit(IF var.isArray THEN Emit(g, "NEW_ARRAY", <<>>) ELSE g, "STORE", var.text)

\* GenExpression on children[i..] in order
GenExprList(ch, i, g) ==
  IF i > Len(ch) \/ ~Evaluated(g) THEN g
  ELSE GenExprList(ch, i + 1, GenExpression(ch[i], g))

\* the Assign case of GenExpression
GenAssign(node, g) ==
  LET lhs == node.children[1]
      rhs == node.children[2]
  IN IF lhs.kind = "Index"
     THEN LET arrExpr   == lhs.children[1]
              indexExpr == lhs.children[2]
          IN IF arrExpr.kind = "Identifier"
             THEN Emit(GenExpression(indexExpr, GenExpression(rhs, g)),
                       "STORE_INDEX", arrExpr.text)
             ELSE Emit(GenExpression(indexExpr,
                         GenExpression(arrExpr, GenExpression(rhs, g))),
                       "STORE_INDEX", <<>>)
     ELSE Emit(GenExpression(rhs, g), "STORE", lhs.text)

GenExpression(node, g) ==
  CASE IsNull(node) \/ ~Evaluated(g) -> g
    [] node.kind = "Number" ->
         IF IsFloatingLiteral(node.text) THEN Emit(g, "PUSH_DOUBLE", node.text)
         ELSE Emit(g, "PUSH_INT", node.text)
    [] node.kind = "String" -> Emit(g, "PUSH_STRING", node.text)
    [] node.kind = "Identifier" -> Emit(g, "LOAD", node.text)
    [] node.kind = "Unary" ->
         EmitUnless(GenExpression(node.children[1], g), UnaryOpCode(node.text))
    [] node.kind = "Binary" ->
         EmitUnless(GenExpression(node.children[2],
                                  GenExpression(node.children[1], g)),
                    BinaryOpCode(node.text))
    [] node.kind = "Call" ->
         Emit(GenExprList(node.children, 2, g), "CALL", node.children[1].text)
    [] node.kind = "Index" ->
         Emit(GenExpression(node.children[2], GenExpression(node.children[1], g)),
              "LOAD_INDEX", <<>>)
    [] node.kind = "Assign" -> GenAssign(node, g)
    [] node.kind = "CommaExpr" -> GenExprList(node.children, 1, g)
    [] OTHER -> g

GenExprStmt(node, g) ==
  IF node.children = <<>> THEN g
  ELSE EmitPopIf(GenExpression(node.children[1], g), node.children[1])

\* GenStatement on children[i..] in order
GenStmtList(ch, i, g) ==
  IF i > Len(ch) \/ ~Evaluated(g) THEN g
  ELSE GenStmtList(ch, i + 1, GenStatement(ch[i], g))

\* the declarator loop of the VarDeclList case, from children[i]
GenVarDecls(ch, i, g) ==
  IF i > Len(ch) \/ ~Evaluated(g) THEN g
  ELSE GenVarDecls(ch, i + 1,
         EmitVarStore(IF ch[i].children # <<>>
                      THEN GenExpression(ch[i].children[1], g)
                      ELSE Emit(g, "PUSH_INT", <<"0">>),
                      ch[i]))

GenWhile(node, g) ==
  LET start == NewLabel(g)
      end   == NewLabel(Bump(g))
      g1 == Emit(PushLoop(Bump(Bump(g)), end, start), "LABEL", start)
      g2 == Emit(GenExpression(node.children[1], g1), "JZ", end)
      g3 == Emit(GenStatement(node.children[2], g2), "JMP", start)
  IN PopLoop(Emit(g3, "LABEL", end))

GenDoWhile(node, g) ==
  LET start == NewLabel(g)
      end   == NewLabel(Bump(g))
      g1 == Emit(PushLoop(Bump(Bump(g)), end, start), "LABEL", start)
      g2 == GenExpression(node.children[2], GenStatement(node.children[1], g1))
      g3 == Emit(Emit(g2, "JZ", end), "JMP", start)
  IN PopLoop(Emit(g3, "LABEL", end))

\* the condition of a For, when it has one
GenForCond(cond, endLabel, g) ==
  IF IsNull(cond) THEN g ELSE Emit(GenExpression(cond, g), "JZ", endLabel)

\* the step of a For, when it has one
GenForStep(stepExpr, g) ==
  IF IsNull(stepExpr) THEN g ELSE EmitPopIf(GenExpression(stepExpr, g), stepExpr)

GenFor(node, g) ==
  LET startLabel == NewLabel(g)
      stepLabel  == NewLabel(Bump(g))
      endLabel   == NewLabel(Bump(Bump(g)))
      g0 == PushLoop(Bump(Bump(Bump(g))), endLabel, stepLabel)
      g1 == Emit(GenStatement(node.children[1], g0), "LABEL", startLabel)
      g2 == GenForCond(node.children[2], endLabel, g1)
      g3 == Emit(GenStatement(node.children[4], g2), "LABEL", stepLabel)
      g4 == GenForStep(node.children[3], g3)
  IN PopLoop(Emit(Emit(g4, "JMP", startLabel), "LABEL", endLabel))

GenStatement(node, g) ==
  CASE IsNull(node) \/ ~Evaluated(g) -> g
    [] node.kind = "Block" -> GenStmtList(node.children, 1, g)
    [] node.kind = "ExprStmt" -> GenExprStmt(node, g)
    [] node.kind = "VarDeclList" -> GenVarDecls(node.children, 2, g)
    [] node.kind = "Assign" ->
         IF node.children # <<>> THEN GenExpression(node, g) ELSE g
    [] node.kind = "If" -> GenIf(node, g)
    [] node.kind = "While" -> GenWhile(node, g)
    [] node.kind = "DoWhile" -> GenDoWhile(node, g)
    [] node.kind = "For" -> GenFor(node, g)
    [] node.kind = "Break" ->
         IF g.breakLabels_ # <<>> THEN Emit(g, "JMP", Last(g.breakLabels_)) ELSE g
    [] node.kind = "Continue" ->
         IF g.continueLabels_ # <<>> THEN Emit(g, "JMP", Last(g.continueLabels_))
         ELSE g
    [] node.kind = "Return" ->
         Emit(IF node.children # <<>> THEN GenExpression(node.children[1], g) ELSE g,
              "RET", <<>>)
    [] OTHER -> g

\* the loop of GenIf over children[i..] (else-if nodes and the plain else)
GenIfRest(ch, i, endLabel, g) ==
  IF i > Len(ch) THEN g
  ELSE LET child == ch[i]
       IN IF child.kind = "ElseIf"
          THEN LET elseIfNext == NewLabel(g)
                   g1 == Emit(GenExpression(child.children[1], Bump(g)),
                              "JZ", elseIfNext)
                   g2 == Emit(GenStatement(child.children[2], g1), "JMP", endLabel)
               IN GenIfRest(ch, i + 1, endLabel, Emit(g2, "LABEL", elseIfNext))
          ELSE GenIfRest(ch, i + 1, endLabel, GenStatement(child, g))

GenIf(node, g) ==
  LET endLabel  == NewLabel(g)
      nextLabel == NewLabel(Bump(g))
      g1 == Emit(GenExpression(node.children[1], Bump(Bump(g))), "JZ", nextLabel)
      g2 == Emit(GenStatement(node.children[2], g1), "JMP", endLabel)
      g3 == Emit(g2, "LABEL", nextLabel)
  IN Emit(GenIfRest(node.children, 3, endLabel, g3), "LABEL", endLabel)

\* the parameter names of a Function node: children[1..n-2] of the source
ParamNames(node) ==
  [i \in 1..(IF Len(node.children) >= 2 THEN Len(node.children) - 2 ELSE 0) |->
     node.children[i + 1].text]

\* a generator that stores the parameters first to last, where GenFunction
\* stores them last to first
RECURSIVE EmitParamStoresForward(_, _, _)
EmitParamStoresForward(paramNames, i, g) ==
  IF i < 1 THEN g
  ELSE Emit(EmitParamStoresForward(paramNames, i - 1, g), "STORE", paramNames[i])

\* STORE for paramNames[i], paramNames[i-1], ..., paramNames[1]
RECURSIVE EmitParamStores(_, _, _)
EmitParamStores(paramNames, i, g) ==
  IF i < 1 THEN g
  ELSE EmitParamStores(paramNames, i - 1, Emit(g, "STORE", paramNames[i]))

\* the end of GenFunction: a RET unless the body's code already ends in one
EnsureRet(g) ==
  IF g.code_ = <<>> \/ Last(g.code_).op # "RET" THEN Emit(g, "RET", <<>>) ELSE g

\* the body of a Function node, when it has children
GenBody(node, g) ==
  IF node.children # <<>> THEN GenStatement(Last(node.children), g) ELSE g

GenFunction(node, g) ==
  EnsureRet(GenBody(node,
    EmitParamStores(ParamNames(node), Len(ParamNames(node)),
                    Emit(g, "LABEL", node.text))))

GenNode(node, g) ==
  IF IsNull(node) THEN g
  ELSE IF node.kind = "Function" THEN GenFunction(node, g)
  ELSE GenStatement(node, g)

RECURSIVE GenNodes(_, _, _)
GenNodes(ch, i, g) ==
  IF i > Len(ch) \/ ~Evaluated(g) THEN g
  ELSE GenNodes(ch, i + 1, GenNode(ch[i], g))

\* RPNGenerator::Generate: the generator's fields when it returns
Generate(root) == GenNodes(root.children, 1, GenInit)

\* ------------------------------------------------------ semantic analyzer

\* struct Symbol
Symbol(name, type, isArray, isFunction, paramTypes, paramIsArray) ==
  [name |-> name, type |-> type, isArray |-> isArray, isFunction |-> isFunction,
   paramTypes |-> paramTypes, paramIsArray |-> paramIsArray]

\* Scope::symbols of a fresh scope; the scope chain is a sequence, innermost last
EmptyScope == <<>>

HasSymbol(scope, name) == name \in DOMAIN scope

\* Declare refusing a name that any scope of the chain has
DeclareAnyScope(scopes, sym) ==
  LET cur == Last(scopes)
  IN IF \E i \in 1..Len(scopes) : HasSymbol(scopes[i], sym.name)
     THEN [ok |-> FALSE, scopes |-> scopes]
     ELSE [ok |-> TRUE,
           scopes |-> [scopes EXCEPT ![Len(scopes)] =
                         [n \in DOMAIN cur \cup {sym.name} |->
                            IF n = sym.name THEN sym ELSE cur[n]]]]

\* Scope::Declare on the innermost scope: [ok, scopes]
Declare(scopes, sym) ==
  LET cur == Last(scopes)
  IN IF HasSymbol(cur, sym.name) THEN [ok |-> FALSE, scopes |-> scopes]
     ELSE [ok |-> TRUE,
           scopes |-> [scopes EXCEPT ![Len(scopes)] =
                         [n \in DOMAIN cur \cup {sym.name} |->
                            IF n = sym.name THEN sym ELSE cur[n]]]]

\* Scope::Lookup from scope number i outwards: [found, sym]
RECURSIVE LookupFrom(_, _, _)
LookupFrom(scopes, i, name) ==
  IF i < 1 THEN [found |-> FALSE, sym |-> Symbol(<<>>, "UNKNOWN", FALSE, FALSE, <<>>, <<>>)]
  ELSE IF HasSymbol(scopes[i], name) THEN [found |-> TRUE, sym |-> scopes[i][name]]
  ELSE LookupFrom(scopes, i - 1, name)

Lookup(scopes, name) == LookupFrom(scopes, Len(scopes), name)

\* SemanticAnalyzer's fields as constructed
SemaInit ==
  [scopes |-> <<>>, errors_ |-> <<>>, inFunction |-> FALSE, loopDepth |-> 0,
   currentReturnType |-> "VOID"]

Error(a, msg) == [a EXCEPT !.errors_ = Append(@, msg)]

EnterScope(a) == [a EXCEPT !.scopes = Append(@, EmptyScope)]

ExitScope(a) == [a EXCEPT !.scopes = Front(@)]

NodeToType(t) ==
  IF IsNull(t) THEN "UNKNOWN"
  ELSE IF t.kind = "TypeNode"
  THEN CASE t.text = <<"i", "n", "t">> -> "INT"
         [] t.text = <<"c", "h", "a", "r">> -> "CHAR"
         [] t.text = <<"d", "o", "u", "b", "l", "e">> -> "DOUBLE"
         [] t.text = <<"s", "t", "r", "i", "n", "g">> -> "STRING"
         [] t.text = <<"v", "o", "i", "d">> -> "VOID"
         [] OTHER -> "UNKNOWN"
  ELSE "UNKNOWN"

\* SemanticAnalyzer::CollectArgs: the flattened argument list
RECURSIVE CollectArgs(_)
CollectArgs(node) ==
  IF IsNull(node) THEN <<>>
  ELSE IF node.kind = "CommaExpr"
  THEN IF Len(node.children) = 2
       THEN CollectArgs(node.children[1]) \o CollectArgs(node.children[2])
       ELSE <<>>
  ELSE <<node>>

DeclareVar(a, v, t) ==
  LET d == Declare(a.scopes, Symbol(v.text, t, v.isArray, FALSE, <<>>, <<>>))
  IN IF d.ok THEN [a EXCEPT !.scopes = d.scopes]
     ELSE Error(a, <<"Duplicate variable: ">> \o v.text)

IsNumericType(t) == t = "INT" \/ t = "DOUBLE"

IsComparisonOp(op) ==
  op \in {<<"<">>, <<"<", "=">>, <<">">>, <<">", "=">>, <<"=", "=">>, <<"!", "=">>}

\* CheckBinary with the arithmetic result double only when both operands are
CheckBinaryBothDouble(a, op, l, r) ==
  IF l = "UNKNOWN" \/ r = "UNKNOWN" THEN [a |-> a, t |-> "UNKNOWN"]
  ELSE IF IsComparisonOp(op)
  THEN IF IsNumericType(l) /\ IsNumericType(r) THEN [a |-> a, t |-> "INT"]
       ELSE IF l = "STRING" /\ r = "STRING" /\ op \in {<<"=", "=">>, <<"!", "=">>}
       THEN [a |-> a, t |-> "INT"]
       ELSE [a |-> Error(a, <<"invalid operands to comparison operator">>),
             t |-> "UNKNOWN"]
  ELSE IF l = "STRING" \/ r = "STRING"
  THEN IF op = <<"+">> /\ l = "STRING" /\ r = "STRING" THEN [a |-> a, t |-> "STRING"]
       ELSE [a |-> Error(a, <<"invalid binary operation with string">>),
             t |-> "UNKNOWN"]
  ELSE IF IsNumericType(l) /\ IsNumericType(r)
  THEN [a |-> a, t |-> IF l = "DOUBLE" /\ r = "DOUBLE" THEN "DOUBLE" ELSE "INT"]
  ELSE [a |-> Error(a, <<"incompatible binary operand types">>), t |-> "UNKNOWN"]

\* the Binary case of CheckExpression once both operands are typed l and r
CheckBinary(a, op, l, r) ==
  IF l = "UNKNOWN" \/ r = "UNKNOWN" THEN [a |-> a, t |-> "UNKNOWN"]
  ELSE IF IsComparisonOp(op)
  THEN IF IsNumericType(l) /\ IsNumericType(r) THEN [a |-> a, t |-> "INT"]
       ELSE IF l = "STRING" /\ r = "STRING" /\ op \in {<<"=", "=">>, <<"!", "=">>}
       THEN [a |-> a, t |-> "INT"]
       ELSE [a |-> Error(a, <<"invalid operands to comparison operator">>),
             t |-> "UNKNOWN"]
  ELSE IF l = "STRING" \/ r = "STRING"
  THEN IF op = <<"+">> /\ l = "STRING" /\ r = "STRING" THEN [a |-> a, t |-> "STRING"]
       ELSE [a |-> Error(a, <<"invalid binary operation with string">>),
             t |-> "UNKNOWN"]
  ELSE IF IsNumericType(l) /\ IsNumericType(r)
  THEN [a |-> a, t |-> IF l = "DOUBLE" \/ r = "DOUBLE" THEN "DOUBLE" ELSE "INT"]
  ELSE [a |-> Error(a, <<"incompatible binary operand types">>), t |-> "UNKNOWN"]

RECURSIVE CheckExpression(_, _)
RECURSIVE CheckArgs(_, _, _, _, _)
RECURSIVE CheckStatement(_, _)
RECURSIVE CheckStmtList(_, _, _)
RECURSIVE CheckVarDecls(_, _, _, _)

\* the type-check loop of the Call case over args[i..]
CheckArgs(a, args, i, s, calleeText) ==
  IF i > Len(args) THEN a
  ELSE LET r == CheckExpression(args[i], a)
           bad == /\ i <= Len(s.paramTypes)
                  /\ r.t # s.paramTypes[i]
                  /\ ~(s.paramTypes[i] = "DOUBLE" /\ r.t = "INT")
                  /\ r.t # "UNKNOWN"
           a1 == IF bad
                 THEN Error(r.a, <<"argument ">> \o to_string(i)
                                   \o <<" type mismatch in call to ">> \o calleeText)
                 ELSE r.a
       IN CheckArgs(a1, args, i + 1, s, calleeText)

\* the Call case of CheckExpression
CheckCall(node, a) ==
  LET callee == node.children[1]
      look   == Lookup(a.scopes, callee.text)
      s      == look.sym
      args   == IF Len(node.children) > 1 THEN CollectArgs(node.children[2]) ELSE <<>>
  IN IF callee.kind # "Identifier"
     THEN [a |-> Error(a, <<"Call target must be a function name">>), t |-> "UNKNOWN"]
     ELSE IF ~look.found
     THEN [a |-> Error(a, <<"Call to undeclared function: ">> \o callee.text),
           t |-> "UNKNOWN"]
     ELSE IF ~s.isFunction
     THEN [a |-> Error(a, <<"Call of non-function: ">> \o callee.text), t |-> "UNKNOWN"]
     ELSE LET a1 == IF Len(args) # Len(s.paramTypes)
                    THEN Error(a, <<"wrong number of arguments in call to ">>
                                  \o callee.text \o <<" (expected ">>
                                  \o to_string(Len(s.paramTypes)) \o <<", got ">>
                                  \o to_string(Len(args)) \o <<")">>)
                    ELSE a
          IN [a |-> CheckArgs(a1, args, 1, s, callee.text), t |-> s.type]

\* the Index case of CheckExpression
CheckIndex(node, a) ==
  LET base == node.children[1]
      idx  == node.children[2]
      rb   == CheckExpression(base, a)
      ri   == CheckExpression(idx, rb.a)
      a1   == IF ri.t # "INT" THEN Error(ri.a, <<"Array index must be int">>) ELSE ri.a
      look == Lookup(a1.scopes, base.text)
      a2   == IF base.kind = "Identifier" /\ look.found /\ ~look.sym.isArray
              THEN Error(a1, <<"Indexing non-array variable: ">> \o base.text)
              ELSE a1
  IN [a |-> a2, t |-> rb.t]

\* the Assign case of CheckExpression
CheckAssign(node, a) ==
  LET lhs == node.children[1]
      rhs == node.children[2]
      a0  == IF lhs.kind # "Identifier" /\ lhs.kind # "Index"
             THEN Error(a, <<"Invalid assignment target">>) ELSE a
      rl  == CheckExpression(lhs, a0)
      rr  == CheckExpression(rhs, rl.a)
      bad == /\ rl.t # rr.t
             /\ ~(rl.t = "DOUBLE" /\ rr.t = "INT")
             /\ rl.t # "UNKNOWN"
             /\ rr.t # "UNKNOWN"
  IN [a |-> IF bad THEN Error(rr.a, <<"Assignment type mismatch">>) ELSE rr.a,
      t |-> rl.t]

CheckExpression(node, a) ==
  CASE ~Evaluated(a) -> [a |-> a, t |-> "UNKNOWN"]
    [] node.kind = "Number" ->
         [a |-> a, t |-> IF IsFloatingLiteral(node.text) THEN "DOUBLE" ELSE "INT"]
    [] node.kind = "String" -> [a |-> a, t |-> "STRING"]
    [] node.kind = "Identifier" ->
         LET look == Lookup(a.scopes, node.text)
         IN IF ~look.found
            THEN [a |-> Error(a, <<"Undeclared variable: ">> \o node.text),
                  t |-> "UNKNOWN"]
            ELSE IF look.sym.isFunction
            THEN [a |-> Error(a, <<"Function used as value: ">> \o node.text),
                  t |-> "UNKNOWN"]
            ELSE [a |-> a, t |-> look.sym.type]
    [] node.kind = "Unary" -> CheckExpression(node.children[1], a)
    [] node.kind = "CommaExpr" ->
         CheckExpression(node.children[2], CheckExpression(node.children[1], a).a)
    [] node.kind = "Assign" -> CheckAssign(node, a)
    [] node.kind = "Binary" ->
         LET rl == CheckExpression(node.children[1], a)
             rr == CheckExpression(node.children[2], rl.a)
         IN CheckBinary(rr.a, node.text, rl.t, rr.t)
    [] node.kind = "Index" -> CheckIndex(node, a)
    [] node.kind = "Call" -> CheckCall(node, a)
    [] OTHER -> [a |-> a, t |-> "UNKNOWN"]

\* the initializer check of one declarator: r is what CheckExpression returned
CheckInitType(r, declared) ==
  IF \/ declared = "UNKNOWN" \/ r.t = "UNKNOWN"
     \/ declared = r.t
     \/ (declared = "DOUBLE" /\ r.t = "INT")
  THEN r.a
  ELSE Error(r.a, <<"initializer type mismatch">>)

\* one declarator after its DeclareVar
CheckInit(var, declared, a) ==
  IF var.children = <<>> THEN a
  ELSE CheckInitType(CheckExpression(var.children[1], a), declared)

\* the declarator loop of CheckVarDeclList, from children[i]
CheckVarDecls(ch, i, declared, a) ==
  IF i > Len(ch) \/ ~Evaluated(a) THEN a
  ELSE CheckVarDecls(ch, i + 1, declared,
                     CheckInit(ch[i], declared, DeclareVar(a, ch[i], declared)))

CheckVarDeclList(node, a) ==
  CheckVarDecls(node.children, 2, NodeToType(node.children[1]), a)

\* CheckStatement on children[i..] in order
CheckStmtList(ch, i, a) ==
  IF i > Len(ch) \/ ~Evaluated(a) THEN a
  ELSE CheckStmtList(ch, i + 1, CheckStatement(ch[i], a))

\* a condition's diagnostic: the type must be int or unknown
CheckCond(r, msg) ==
  IF r.t # "INT" /\ r.t # "UNKNOWN" THEN Error(r.a, <<msg>>) ELSE r.a

\* the condition of a While, DoWhile or If node, when the node has children
CheckCondOf(node, cond, msg, a) ==
  IF node.children # <<>> THEN CheckCond(CheckExpression(cond, a), msg) ELSE a

\* the Return case, a value given: r is what CheckExpression returned for it
CheckReturnType(r) ==
  IF r.t # r.a.currentReturnType
     /\ ~(r.a.currentReturnType = "DOUBLE" /\ r.t = "INT")
  THEN Error(r.a, <<"Return type mismatch">>)
  ELSE r.a

\* the Return case of CheckStatement
CheckReturn(node, a) ==
  IF ~a.inFunction THEN Error(a, <<"return outside of function">>)
  ELSE IF node.children # <<>>
  THEN CheckReturnType(CheckExpression(node.children[1], a))
  ELSE IF a.currentReturnType # "VOID" THEN Error(a, <<"Missing return value">>)
  ELSE a

\* a loop entered without counting it
LoopInUncounted(a) == a

\* loopDepth++ and loopDepth-- around the body of a loop
LoopIn(a) == [a EXCEPT !.loopDepth = @ + 1]

LoopOut(a) == [a EXCEPT !.loopDepth = @ - 1]

\* the four parts of the For case, each skipped when its child is null
CheckForInit(node, a) ==
  IF IsNull(node.children[1]) THEN a ELSE CheckStatement(node.children[1], a)

CheckForCond(node, a) ==
  IF IsNull(node.children[2]) THEN a
  ELSE CheckCond(CheckExpression(node.children[2], a),
                 "For loop condition must be an integer expression")

CheckForStep(node, a) ==
  IF IsNull(node.children[3]) THEN a ELSE CheckExpression(node.children[3], a).a

CheckForBody(node, a) ==
  IF IsNull(node.children[4]) THEN a ELSE CheckStatement(node.children[4], a)

\* the For case of CheckStatement
CheckFor(node, a) ==
  LET a1 == CheckForInit(node, EnterScope(a))
      a2 == CheckForCond(node, a1)
      a3 == CheckForStep(node, a2)
      a4 == CheckForBody(node, LoopIn(a3))
  IN ExitScope(LoopOut(a4))

CheckStatement(stmt, a) ==
  LET node == IF stmt.kind = "ExprStmt" THEN stmt.children[1] ELSE stmt
  IN CASE ~Evaluated(a) -> a
       [] node.kind = "Block" ->
            ExitScope(CheckStmtList(node.children, 1, EnterScope(a)))
       [] node.kind = "VarDeclList" -> CheckVarDeclList(node, a)
       [] node.kind = "Return" -> CheckReturn(node, a)
       [] node.kind \in {"Break", "Continue"} ->
            IF a.loopDepth <= 0 THEN Error(a, <<"break/continue outside loop">>) ELSE a
       [] node.kind = "While" ->
            LoopOut(CheckStmtList(node.children, 2,
                      LoopIn(CheckCondOf(node, node.children[1],
                                         "While condition must be int", a))))
       [] node.kind = "DoWhile" ->
            CheckCondOf(node, Last(node.children), "Do-while condition must be int",
                        LoopOut(CheckStmtList(Front(node.children), 1, LoopIn(a))))
       [] node.kind = "For" -> CheckFor(node, a)
       [] node.kind \in {"If", "ElseIf"} ->
            CheckStmtList(node.children, 1,
                          CheckCondOf(node, node.children[1],
                                      "If condition must be int", a))
       [] node.kind \in {"Assign", "Binary", "Call"} -> CheckExpression(node, a).a
       [] OTHER -> a

\* the parameter loop of CheckFunction over children[i..n-1]
RECURSIVE DeclareArgs(_, _, _)
DeclareArgs(ch, i, a) ==
  IF i >= Len(ch) THEN a
  ELSE DeclareArgs(ch, i + 1, DeclareVar(a, ch[i], NodeToType(ch[i].children[1])))

CheckFunction(node, a) ==
  LET a0 == [EnterScope(a) EXCEPT !.inFunction = TRUE,
                                   !.currentReturnType = NodeToType(node.children[1])]
      a1 == DeclareArgs(node.children, 2, a0)
      a2 == CheckStatement(Last(node.children), a1)
  IN [ExitScope(a2) EXCEPT !.currentReturnType = "VOID", !.inFunction = FALSE]

\* names of the built-ins
N_printInt    == <<"p", "r", "i", "n", "t", "I", "n", "t">>
N_printDouble == <<"p", "r", "i", "n", "t", "D", "o", "u", "b", "l", "e">>
N_printStr    == <<"p", "r", "i", "n", "t", "S", "t", "r">>
N_inputInt    == <<"i", "n", "p", "u", "t", "I", "n", "t">>
N_inputDouble == <<"i", "n", "p", "u", "t", "D", "o", "u", "b", "l", "e">>
N_inputStr    == <<"i", "n", "p", "u", "t", "S", "t", "r">>
N_vsuprun     == <<"v", "s", "u", "p", "r", "u", "n">>
N_main        == <<"m", "a", "i", "n">>

\* the built-in symbols Analyze predeclares, in order
BuiltinSymbols ==
  << Symbol(N_printInt, "VOID", FALSE, TRUE, <<"INT">>, <<FALSE>>),
     Symbol(N_printDouble, "VOID", FALSE, TRUE, <<"DOUBLE">>, <<FALSE>>),
     Symbol(N_printStr, "VOID", FALSE, TRUE, <<"STRING">>, <<FALSE>>),
     Symbol(N_inputInt, "INT", FALSE, TRUE, <<>>, <<>>),
     Symbol(N_inputDouble, "DOUBLE", FALSE, TRUE, <<>>, <<>>),
     Symbol(N_inputStr, "STRING", FALSE, TRUE, <<>>, <<>>) >>

\* the Symbol the first pass builds for a Function node
FunctionSymbol(child) ==
  LET n == IF Len(child.children) >= 2 THEN Len(child.children) - 2 ELSE 0
  IN Symbol(child.text, NodeToType(child.children[1]), FALSE, TRUE,
            [i \in 1..n |-> NodeToType(child.children[i + 1].children[1])],
            [i \in 1..n |-> child.children[i + 1].isArray])

\* one iteration of the first pass of Analyze
PredeclareChild(child, a) ==
  IF child.kind # "Function" THEN a
  ELSE LET d == Declare(a.scopes, FunctionSymbol(child))
       IN IF d.ok THEN [a EXCEPT !.scopes = d.scopes]
          ELSE Error(a, <<"Duplicate function: ">> \o child.text)

\* first pass of Analyze over children[i..]
RECURSIVE Predeclare(_, _, _)
Predeclare(ch, i, a) ==
  IF i > Len(ch) THEN a ELSE Predeclare(ch, i + 1, PredeclareChild(ch[i], a))

\* one iteration of the second pass of Analyze
CheckChild(child, a) ==
  IF child.kind = "Function" THEN CheckFunction(child, a) ELSE CheckStatement(child, a)

\* second pass of Analyze over children[i..]
RECURSIVE CheckTopLevel(_, _, _)
CheckTopLevel(ch, i, a) ==
  IF i > Len(ch) \/ ~Evaluated(a) THEN a
  ELSE CheckTopLevel(ch, i + 1, CheckChild(ch[i], a))

RECURSIVE DeclareAll(_, _, _)
DeclareAll(syms, i, scopes) ==
  IF i > Len(syms) THEN scopes
  ELSE DeclareAll(syms, i + 1, Declare(scopes, syms[i]).scopes)

\* SemanticAnalyzer::Analyze: the analyzer's fields when it returns
Analyze(root) ==
  LET a0 == [SemaInit EXCEPT !.scopes = DeclareAll(BuiltinSymbols, 1, <<EmptyScope>>)]
      a1 == Predeclare(root.children, 1, a0)
      a2 == CheckTopLevel(root.children, 1, a1)
  IN ExitScope(a2)

\* ---------------------------------------------------------------- values

\* A double is modelled by the exact rational n/m, m > 0, in lowest terms.
RECURSIVE Gcd(_, _)
Gcd(a, b) == IF b = 0 THEN a ELSE Gcd(b, a % b)

Abs(n) == IF n < 0 THEN -n ELSE n

Rat(n, m) ==
  LET sn == IF m < 0 THEN -n ELSE n
      sm == Abs(m)
      g  == Gcd(Abs(sn), sm)
  IN [n |-> sn \div g, m |-> sm \div g]

RatZero == [n |-> 0, m |-> 1]

RatAdd(x, y) == Rat(x.n * y.m + y.n * x.m, x.m * y.m)
RatSub(x, y) == Rat(x.n * y.m - y.n * x.m, x.m * y.m)
RatMul(x, y) == Rat(x.n * y.n, x.m * y.m)
RatDiv(x, y) == Rat(x.n * y.m, x.m * y.n)
RatLt(x, y)  == x.n * y.m < y.n * x.m
RatNeg(x)    == [n |-> -x.n, m |-> x.m]

\* C++ integer division and remainder (truncation towards zero), b # 0
CDiv(a, b) ==
  LET q == Abs(a) \div Abs(b) IN IF (a < 0) # (b < 0) THEN -q ELSE q

CMod(a, b) == a - b * CDiv(a, b)

RECURSIVE Pow10(_)
Pow10(k) == IF k = 0 THEN 1 ELSE 10 * Pow10(k - 1)

\* struct Value and its factories; a default Value has type kNone
Value(type, i, d, s, a) == [type |-> type, i |-> i, d |-> d, s |-> s, a |-> a]

NoneValue == Value("kNone", 0, RatZero, <<>>, <<>>)

MakeInt(v) == Value("kInt", v, RatZero, <<>>, <<>>)

MakeDouble(v) == Value("kDouble", 0, v, <<>>, <<>>)

MakeString(v) == Value("kString", 0, RatZero, v, <<>>)

MakeArray(n) == Value("kArray", 0, RatZero, <<>>, [k \in 1..n |-> MakeInt(0)])

IsZero(v) ==
  CASE v.type = "kInt" -> v.i = 0
    [] v.type = "kDouble" -> v.d.n = 0
    [] v.type = "kString" -> v.s = <<>>
    [] v.type = "kArray" -> v.a = <<>>
    [] OTHER -> TRUE

\* std::stod inside try/catch(...) on [sign] digits [. digits]: [ok, v]
stod(s) ==
  LET i0   == SkipSpace(s, 1)
      neg  == i0 <= Len(s) /\ s[i0] = "-"
      i1   == IF i0 <= Len(s) /\ s[i0] \in {"+", "-"} THEN i0 + 1 ELSE i0
      int  == DigitRun(s, i1)
      dot  == i1 + Len(int)
      frac == IF dot <= Len(s) /\ s[dot] = "." THEN DigitRun(s, dot + 1) ELSE <<>>
      mag  == Rat(DigitsValue(int \o frac, 0), Pow10(Len(frac)))
  IN IF int = <<>> /\ frac = <<>> THEN [ok |-> FALSE, v |-> RatZero]
     ELSE [ok |-> TRUE, v |-> IF neg THEN RatNeg(mag) ELSE mag]

\* static_cast<int64_t>(double): truncation towards zero
Trunc(d) == CDiv(d.n, d.m)

AsDouble(v) ==
  CASE v.type = "kInt" -> Rat(v.i, 1)
    [] v.type = "kDouble" -> v.d
    [] v.type = "kString" -> stod(v.s).v
    [] OTHER -> RatZero

AsInt(v) ==
  CASE v.type = "kInt" -> v.i
    [] v.type = "kDouble" -> Trunc(v.d)
    [] v.type = "kString" -> stoll(v.s).v
    [] OTHER -> 0

\* floor(x / y) for a rational x >= 0 and an integer power y = 10^k or 1/10^k
ScaledRound(d, k) ==
  \* d * 10^k rounded to nearest, ties away from zero; d >= 0
  LET num == IF k >= 0 THEN d.n * Pow10(k) ELSE d.n
      den == IF k >= 0 THEN d.m ELSE d.m * Pow10(-k)
  IN (2 * num + den) \div (2 * den)

\* the decimal exponent e of d > 0: 10^e <= d < 10^(e+1)
RECURSIVE Exp10Up(_, _)
Exp10Up(d, e) == IF RatLt(d, Rat(Pow10(e + 1), 1)) THEN e ELSE Exp10Up(d, e + 1)

RECURSIVE Exp10Down(_, _)
Exp10Down(d, e) == IF ~RatLt(d, Rat(1, Pow10(-e))) THEN e ELSE Exp10Down(d, e - 1)

Exp10(d) == IF RatLt(d, Rat(1, 1)) THEN Exp10Down(d, -1) ELSE Exp10Up(d, 0)

RECURSIVE StripZeros(_)
StripZeros(ds) ==
  IF ds # <<>> /\ Last(ds) = "0" THEN StripZeros(Front(ds)) ELSE ds

RECURSIVE PadLeft(_, _)
PadLeft(ds, n) == IF Len(ds) >= n THEN ds ELSE PadLeft(<<"0">> \o ds, n)

\* operator<<(ostream, double) at the default precision 6 (printf %g)
FormatDouble(d) ==
  IF d.n = 0 THEN <<"0">>
  ELSE
    LET mag  == [n |-> Abs(d.n), m |-> d.m]
        e0   == Exp10(mag)
        r0   == ScaledRound(mag, 5 - e0)
        e    == IF r0 >= 1000000 THEN e0 + 1 ELSE e0
        r    == IF r0 >= 1000000 THEN r0 \div 10 ELSE r0
        ds   == NatToString(r)
        sign == IF d.n < 0 THEN <<"-">> ELSE <<>>
    IN IF e < -4 \/ e >= 6
       THEN LET frac == StripZeros(Tail(ds))
                ex   == PadLeft(NatToString(Abs(e)), 2)
            IN sign \o <<Head(ds)>> \o (IF frac = <<>> THEN <<>> ELSE <<".">> \o frac)
                    \o <<"e", IF e < 0 THEN "-" ELSE "+">> \o ex
       ELSE IF e >= 0
       THEN LET frac == StripZeros(SubSeq(ds, e + 2, 6))
            IN sign \o SubSeq(ds, 1, e + 1)
                    \o (IF frac = <<>> THEN <<>> ELSE <<".">> \o frac)
       ELSE sign \o <<"0", ".">> \o StripZeros(PadLeft(ds, 5 - e))

AsString(v) ==
  CASE v.type = "kInt" -> to_string(v.i)
    [] v.type = "kDouble" -> FormatDouble(v.d)
    [] v.type = "kString" -> v.s
    [] OTHER -> <<>>

\* -------------------------------------------------------------------- VM

\* struct VM::Frame
Frame(ret_ip, locals) == [ret_ip |-> ret_ip, locals |-> locals]

\* std::map operator[] assignment on a frame's locals
SetLocal(locals, name, v) ==
  [n \in DOMAIN locals \cup {name} |-> IF n = name THEN v ELSE locals[n]]

\* VM::BuildLabelMap: label name -> index of its last LABEL (indices from 0)
BuildLabelMap(code) ==
  LET names == {code[k].arg : k \in {j \in 1..Len(code) : code[j].op = "LABEL"}}
  IN [n \in names |->
        (CHOOSE k \in 1..Len(code) :
           /\ code[k].op = "LABEL" /\ code[k].arg = n
           /\ \A j \in (k + 1)..Len(code) : ~(code[j].op = "LABEL" /\ code[j].arg = n))
        - 1]

\* The machine state of one VM: ip is the local of Run, status tells whether
\* Run is executing, has returned 0, or has thrown std::runtime_error.
Machine(ip, stack, call_stack, status, error, cout) ==
  [ip |-> ip, stack_ |-> stack, call_stack_ |-> call_stack, status |-> status,
   error |-> error, cout |-> cout]

Throw(m, what) == [m EXCEPT !.status = "aborted", !.error = what]

Push(m, v) == [m EXCEPT !.stack_ = Append(@, v)]

\* the k-th value from the top of the stack (1 = top)
Peek(m, k) == m.stack_[Len(m.stack_) + 1 - k]

\* n successive calls of VM::Pop: the first on an empty stack throws
PopN(m, n) ==
  IF Len(m.stack_) < n THEN Throw([m EXCEPT !.stack_ = <<>>], "stack underflow")
  ELSE [m EXCEPT !.stack_ = SubSeq(@, 1, Len(@) - n)]

Advance(m) == IF m.status = "running" THEN [m EXCEPT !.ip = @ + 1] ELSE m

HandlePushInt(m, arg) ==
  LET r == stoll(arg) IN Push(m, MakeInt(IF r.ok THEN r.v ELSE 0))

HandlePushDouble(m, arg) ==
  LET r == stod(arg) IN Push(m, MakeDouble(IF r.ok THEN r.v ELSE RatZero))

HandlePushString(m, arg) ==
  LET quoted == /\ Len(arg) >= 2
                /\ \/ (Head(arg) = "\"" /\ Last(arg) = "\"")
                   \/ (Head(arg) = "'" /\ Last(arg) = "'")
  IN Push(m, MakeString(IF quoted THEN SubSeq(arg, 2, Len(arg) - 1) ELSE arg))

HandleLoad(m, name) ==
  IF m.call_stack_ = <<>> THEN Push(m, MakeInt(0))
  ELSE LET locals == Last(m.call_stack_).locals
       IN IF name \notin DOMAIN locals THEN Push(m, MakeInt(0))
          ELSE Push(m, locals[name])

\* a VM whose STORE writes the outermost frame, where HandleStore writes
\* call_stack_.back()
HandleStoreOutermost(m, name, codeSize) ==
  LET m1 == IF m.call_stack_ = <<>>
            THEN [m EXCEPT !.call_stack_ = <<Frame(codeSize, <<>>)>>]
            ELSE m
  IN IF m1.stack_ = <<>> THEN PopN(m1, 1)
     ELSE LET v == Peek(m1, 1)
          IN [PopN(m1, 1) EXCEPT !.call_stack_[1].locals = SetLocal(@, name, v)]

HandleStore(m, name, codeSize) ==
  LET m1 == IF m.call_stack_ = <<>>
            THEN [m EXCEPT !.call_stack_ = <<Frame(codeSize, <<>>)>>]
            ELSE m
  IN IF m1.stack_ = <<>> THEN PopN(m1, 1)
     ELSE LET v == Peek(m1, 1)
          IN [PopN(m1, 1) EXCEPT
                !.call_stack_[Len(m1.call_stack_)].locals = SetLocal(@, name, v)]

HandleNewArray(m) ==
  IF m.stack_ = <<>> THEN PopN(m, 1)
  ELSE LET n == AsInt(Peek(m, 1))
       IN Push(PopN(m, 1), MakeArray(IF n < 0 THEN 0 ELSE n))

HandleLoadIndex(m) ==
  IF Len(m.stack_) < 2 THEN PopN(m, 2)
  ELSE LET idx == Peek(m, 1)
           arr == Peek(m, 2)
           i   == AsInt(idx)
           m1  == PopN(m, 2)
       IN CASE arr.type = "kArray" ->
                 IF i < 0 \/ i >= Len(arr.a) THEN Push(m1, MakeInt(0))
                 ELSE Push(m1, arr.a[i + 1])
            [] arr.type = "kString" ->
                 IF i < 0 \/ i >= Len(arr.s) THEN Push(m1, MakeString(<<>>))
                 ELSE Push(m1, MakeString(<<arr.s[i + 1]>>))
            [] OTHER -> Push(m1, MakeInt(0))

Max(a, b) == IF a >= b THEN a ELSE b

\* a resize that fills the new elements with val
ResizeAndSetFilled(a, i, val) ==
  [k \in 1..Max(Len(a), i + 1) |-> IF k <= Len(a) /\ k # i + 1 THEN a[k] ELSE val]

\* std::vector::resize(n, fill) growing a, then a[i] = val (i from 0)
ResizeAndSet(a, i, val) ==
  [k \in 1..Max(Len(a), i + 1) |->
     IF k = i + 1 THEN val ELSE IF k <= Len(a) THEN a[k] ELSE MakeInt(0)]

\* the named branch of HandleStoreIndex
StoreIndexNamed(m, varName) ==
  IF Len(m.stack_) < 2 THEN PopN(m, 2)
  ELSE LET idx == Peek(m, 1)
           val == Peek(m, 2)
           i   == AsInt(idx)
           m1  == PopN(m, 2)
       IN IF m1.call_stack_ = <<>> THEN Throw(m1, "store_index with no frame")
          ELSE LET locals == Last(m1.call_stack_).locals
                   fresh  == MakeArray(Max(0, i + 1))
                   cur    == IF varName \notin DOMAIN locals THEN fresh
                             ELSE IF locals[varName].type # "kArray" THEN fresh
                             ELSE locals[varName]
                   new    == IF i >= 0
                             THEN [cur EXCEPT !.a = ResizeAndSet(cur.a, i, val)]
                             ELSE cur
               IN [m1 EXCEPT !.call_stack_[Len(m1.call_stack_)].locals =
                                SetLocal(@, varName, new)]

\* the unnamed (older convention) branch of HandleStoreIndex
StoreIndexUnnamed(m) ==
  IF Len(m.stack_) < 3 THEN PopN(m, 3)
  ELSE LET idx == Peek(m, 1)
           arr == Peek(m, 2)
           val == Peek(m, 3)
           i   == AsInt(idx)
           m1  == PopN(m, 3)
       IN IF arr.type = "kArray"
          THEN IF i >= 0 /\ i < Len(arr.a)
               THEN Push(m1, [arr EXCEPT !.a[i + 1] = val])
               ELSE Push(m1, arr)
          ELSE Push(m1, val)

HandleStoreIndex(m, varName) ==
  IF varName # <<>> THEN StoreIndexNamed(m, varName) ELSE StoreIndexUnnamed(m)

BoolInt(b) == MakeInt(IF b THEN 1 ELSE 0)

\* the cases of HandleBinaryOp that work on a.AsString() and b.AsString()
StringResult(op, sa, sb) ==
  CASE op = "ADD" -> MakeString(sa \o sb)
    [] op = "EQ"  -> BoolInt(sa = sb)
    [] op = "NEQ" -> BoolInt(sa # sb)

\* the cases of HandleBinaryOp that work on a.AsDouble() and b.AsDouble()
DoubleResult(op, da, db) ==
  CASE op = "ADD" -> MakeDouble(RatAdd(da, db))
    [] op = "SUB" -> MakeDouble(RatSub(da, db))
    [] op = "MUL" -> MakeDouble(RatMul(da, db))
    [] op = "DIV" -> MakeDouble(RatDiv(da, db))
    [] op = "LT"  -> BoolInt(RatLt(da, db))
    [] op = "GT"  -> BoolInt(RatLt(db, da))
    [] op = "LE"  -> BoolInt(~RatLt(db, da))
    [] op = "GE"  -> BoolInt(~RatLt(da, db))

\* the cases of HandleBinaryOp that work on a.AsInt() and b.AsInt()
IntResult(op, ia, ib) ==
  CASE op = "ADD" -> MakeInt(ia + ib)
    [] op = "SUB" -> MakeInt(ia - ib)
    [] op = "MUL" -> MakeInt(ia * ib)
    [] op = "DIV" -> IF ib = 0 THEN MakeInt(0) ELSE MakeInt(CDiv(ia, ib))
    [] op = "MOD" -> IF ib = 0 THEN MakeInt(0) ELSE MakeInt(CMod(ia, ib))
    [] op = "LT"  -> BoolInt(ia < ib)
    [] op = "GT"  -> BoolInt(ia > ib)
    [] op = "LE"  -> BoolInt(ia <= ib)
    [] op = "GE"  -> BoolInt(ia >= ib)

\* the value HandleBinaryOp pushes for operands a, b: EQ and NEQ compare the
\* operands as strings, ADD concatenates when one is a string, MOD is always
\* on integers, the others are on doubles when either operand is a double
BinaryResult(op, a, b) ==
  IF op \in {"EQ", "NEQ"} \/ (op = "ADD" /\ (a.type = "kString" \/ b.type = "kString"))
  THEN StringResult(op, AsString(a), AsString(b))
  ELSE IF op # "MOD" /\ (a.type = "kDouble" \/ b.type = "kDouble")
  THEN DoubleResult(op, AsDouble(a), AsDouble(b))
  ELSE IntResult(op, AsInt(a), AsInt(b))

\* a double division whose divisor is zero: the quotient is not a finite
\* double, which the rationals of this model do not cover
LeavesModel(op, a, b) ==
  op = "DIV" /\ (a.type = "kDouble" \/ b.type = "kDouble") /\ AsDouble(b).n = 0

HandleBinaryOp(m, op) ==
  IF Len(m.stack_) < 2 THEN PopN(m, 2)
  ELSE LET b == Peek(m, 1)
           a == Peek(m, 2)
       IN IF LeavesModel(op, a, b) THEN [PopN(m, 2) EXCEPT !.status = "unmodelled"]
          ELSE Push(PopN(m, 2), BinaryResult(op, a, b))

HandleUnaryOp(m, op) ==
  IF m.stack_ = <<>> THEN PopN(m, 1)
  ELSE LET v == Peek(m, 1)
       IN IF op = "NEG"
          THEN Push(PopN(m, 1),
                    IF v.type = "kDouble" THEN MakeDouble(RatNeg(v.d))
                    ELSE MakeInt(-AsInt(v)))
          ELSE Push(PopN(m, 1), BoolInt(IsZero(v)))

IsBuiltin(name) ==
  name \in {N_printInt, N_printStr, N_printDouble, N_inputInt, N_inputStr,
            N_inputDouble, N_vsuprun}

\* the line std::getline yields for input choice inp
InputLine(inp) == [k \in 1..inp |-> "a"]

\* VM::CallBuiltin; inp is what the environment supplies (standard input, or
\* the clock for vsuprun)
CallBuiltin(m, name, inp) ==
  CASE name \in {N_printInt, N_printDouble, N_printStr} ->
         IF m.stack_ = <<>> THEN PopN(m, 1)
         ELSE LET v == Peek(m, 1)
                  text == CASE name = N_printInt -> to_string(AsInt(v))
                            [] name = N_printDouble -> FormatDouble(AsDouble(v))
                            [] OTHER -> AsString(v)
              IN [PopN(m, 1) EXCEPT !.cout = @ \o text]
    [] name = N_inputInt -> Push(m, MakeInt(inp))
    [] name = N_inputDouble -> Push(m, MakeDouble(Rat(inp, 1)))
    [] name = N_inputStr -> Push(m, MakeString(InputLine(inp)))
    [] name = N_vsuprun -> Push(m, MakeInt(IF inp > 0 THEN 1 ELSE 0))
    [] OTHER -> m

\* the JMP case of Run
RunJmp(m, lm, arg) ==
  IF arg \notin DOMAIN lm THEN Throw(m, "unknown label for JMP")
  ELSE [m EXCEPT !.ip = lm[arg]]

\* the JZ case of Run
RunJz(m, lm, arg) ==
  IF m.stack_ = <<>> THEN PopN(m, 1)
  ELSE LET v  == Peek(m, 1)
           m1 == PopN(m, 1)
       IN IF IsZero(v)
          THEN IF arg \notin DOMAIN lm THEN Throw(m1, "unknown label for JZ")
               ELSE [m1 EXCEPT !.ip = lm[arg]]
          ELSE Advance(m1)

\* the frame a user CALL at instruction pointer ip pushes
CallFrame(ip) == Frame(ip + 1, <<>>)

\* the CALL case of Run
RunCall(m, lm, arg, inp) ==
  IF IsBuiltin(arg) THEN Advance(CallBuiltin(m, arg, inp))
  ELSE LET m1 == [m EXCEPT !.call_stack_ = Append(@, CallFrame(m.ip))]
       IN IF arg \notin DOMAIN lm THEN Throw(m1, "unknown function label")
          ELSE [m1 EXCEPT !.ip = lm[arg]]

\* the RET case of Run
RunRet(m) ==
  IF m.call_stack_ = <<>> THEN [m EXCEPT !.status = "halted"]
  ELSE LET fr == Last(m.call_stack_)
           m1 == [m EXCEPT !.call_stack_ = Front(@)]
       IN IF m1.call_stack_ = <<>> THEN [m1 EXCEPT !.status = "halted"]
          ELSE [m1 EXCEPT !.ip = fr.ret_ip]

\* the state of Run on entry to its loop: start at "main" when it is a label
RunStart(code, lm) ==
  IF N_main \in DOMAIN lm
  THEN Machine(lm[N_main], <<>>, <<Frame(Len(code), <<>>)>>, "running", "", <<>>)
  ELSE Machine(0, <<>>, <<>>, "running", "", <<>>)

BinaryOps == {"ADD", "SUB", "MUL", "DIV", "MOD", "EQ", "NEQ", "LT", "GT", "LE", "GE"}

UnaryOps == {"NEG", "NOT"}

\* one iteration of the loop of Run: the switch on code_[ip].op
Exec(code, lm, m, inp) ==
  LET ins == code[m.ip + 1]
      op  == ins.op
  IN CASE op = "POP" -> Advance(PopN(m, 1))
       [] op = "PUSH_INT" -> Advance(HandlePushInt(m, ins.arg))
       [] op = "PUSH_DOUBLE" -> Advance(HandlePushDouble(m, ins.arg))
       [] op = "PUSH_STRING" -> Advance(HandlePushString(m, ins.arg))
       [] op = "LOAD" -> Advance(HandleLoad(m, ins.arg))
       [] op = "STORE" -> Advance(HandleStore(m, ins.arg, Len(code)))
       [] op = "NEW_ARRAY" -> Advance(HandleNewArray(m))
       [] op = "LOAD_INDEX" -> Advance(HandleLoadIndex(m))
       [] op = "STORE_INDEX" -> Advance(HandleStoreIndex(m, ins.arg))
       [] op \in BinaryOps -> Advance(HandleBinaryOp(m, op))
       [] op \in UnaryOps -> Advance(HandleUnaryOp(m, op))
       [] op = "JMP" -> RunJmp(m, lm, ins.arg)
       [] op = "JZ" -> RunJz(m, lm, ins.arg)
       [] op = "CALL" -> RunCall(m, lm, ins.arg, inp)
       [] op = "RET" -> RunRet(m)
       [] op = "LABEL" -> Advance(m)
       [] OTHER -> Throw(m, "unhandled opcode")

\* Run's loop test fails: the instruction pointer ran off the end
RunOffEnd(m) == [m EXCEPT !.status = "halted"]

\* ------------------------------------------------- nodes the parser builds

T_int    == <<"i", "n", "t">>
T_double == <<"d", "o", "u", "b", "l", "e">>
T_string == <<"s", "t", "r", "i", "n", "g">>

\* Parser::MakeTypeNode
MakeTypeNode(text) == make_node("TypeNode", text)

\* ParsePrimary: number, string literal and identifier nodes
Num(text) == make_node("Number", text)
Str(text) == make_node("String", text)
Id(name)  == make_node("Identifier", name)

\* ParseUnary
Un(op, e) == ASTNode("Unary", op, FALSE, <<e>>)

\* ParseEquality .. ParseMultiplicative
Bin(op, l, r) == ASTNode("Binary", op, FALSE, <<l, r>>)

\* ParseAssignment (the parser accepts an Identifier or Index target only)
Asg(l, r) == ASTNode("Assign", <<"=">>, FALSE, <<l, r>>)

\* ParseExpression: one CommaExpr per ','
Comma(l, r) == ASTNode("CommaExpr", <<",">>, FALSE, <<l, r>>)

\* ParsePrimaryIdTail: a call holds its callee and, when there are arguments,
\* the one expression ParseExpression returns for the whole argument list
Call(name, args) == ASTNode("Call", <<"C", "a", "l", "l">>, FALSE, <<Id(name)>> \o args)

\* ParsePrimaryIdTail: an index expression
Idx(base, index) == ASTNode("Index", <<"I", "n", "d", "e", "x">>, FALSE, <<base, index>>)

\* ParseExprStmt
ExprStmt(e) == ASTNode("ExprStmt", <<"E", "x", "p", "r", "S", "t", "m", "t">>, FALSE, <<e>>)

\* ParseBlock
Block(stmts) == ASTNode("Block", <<"B", "l", "o", "c", "k">>, FALSE, stmts)

\* ParseVarDeclList: a declarator; children are [init] and/or [size]
VarDecl(name, isArray, children) == ASTNode("VarDecl", name, isArray, children)

\* ParseVarDeclList
VarDeclList(type, decls) ==
  ASTNode("VarDeclList", <<"V", "a", "r", "D", "e", "c", "l", "L", "i", "s", "t">>,
          FALSE, <<MakeTypeNode(type)>> \o decls)

\* ParseIf: [cond, then, ElseIf..., else?]
If(cond, then, rest) == ASTNode("If", <<"I", "f">>, FALSE, <<cond, then>> \o rest)

ElseIf(cond, body) == ASTNode("ElseIf", <<"E", "l", "s", "e", "I", "f">>, FALSE, <<cond, body>>)

\* ParseWhile
While(cond, body) == ASTNode("While", <<"W", "h", "i", "l", "e">>, FALSE, <<cond, body>>)

\* ParseDoWhile
DoWhile(body, cond) ==
  ASTNode("DoWhile", <<"D", "o", "W", "h", "i", "l", "e">>, FALSE, <<body, cond>>)

\* ParseFor: always four slots, absent ones null
For(init, cond, step, body) == ASTNode("For", <<"F", "o", "r">>, FALSE, <<init, cond, step, body>>)

\* ParseReturn, ParseBreak, ParseContinue
Return(children) == ASTNode("Return", <<"R", "e", "t", "u", "r", "n">>, FALSE, children)
Break    == make_node("Break", <<"B", "r", "e", "a", "k">>)
Continue == make_node("Continue", <<"C", "o", "n", "t", "i", "n", "u", "e">>)

\* ParseFunction: a parameter, and the function node [ret, args..., body]
FuncArg(type, name, isArray) == ASTNode("FuncArg", name, isArray, <<MakeTypeNode(type)>>)

Function(ret, name, args, body) ==
  ASTNode("Function", name, FALSE, <<MakeTypeNode(ret)>> \o args \o <<body>>)

\* ParseProgram
Program(items) == ASTNode("Program", <<"P", "r", "o", "g", "r", "a", "m">>, FALSE, items)

\* ---------------------------------------------------------------- parser

\* struct Token
Token(type, text, line, col) == [type |-> type, text |-> text, line |-> line, col |-> col]

\* Parser::Parser(tokens): the parser's fields
NewParser(tokens) == [tokens_ |-> tokens, pos_ |-> 0, errors_ |-> <<>>]

\* Parser::Peek
ParserPeek(p) ==
  IF p.pos_ < Len(p.tokens_) THEN p.tokens_[p.pos_ + 1]
  ELSE Token("END_OF_FILE", <<>>, 0, 0)

\* Parser::Advance
ParserAdvance(p) == IF p.pos_ < Len(p.tokens_) THEN [p EXCEPT !.pos_ = @ + 1] ELSE p

\* Parser::IsAtEnd
IsAtEnd(p) == ParserPeek(p).type = "END_OF_FILE"

\* Parser::Match(TokenType): [p, ok]
Match(p, t) ==
  IF ParserPeek(p).type = t THEN [p |-> ParserAdvance(p), ok |-> TRUE]
  ELSE [p |-> p, ok |-> FALSE]

\* Parser::Match(initializer_list): [p, ok]
MatchList(p, list) ==
  IF ParserPeek(p).type \in list THEN [p |-> ParserAdvance(p), ok |-> TRUE]
  ELSE [p |-> p, ok |-> FALSE]

\* Parser::AddError
AddError(p, msg) ==
  [p EXCEPT !.errors_ =
     Append(@, <<"Line ">> \o to_string(ParserPeek(p).line) \o <<", col ">>
                 \o to_string(ParserPeek(p).col) \o <<": ">> \o msg)]

\* the text Expect reports for errMsg at the current token
ExpectMessage(p, errMsg) ==
  (IF errMsg = "" THEN <<"Syntax error: expected token">> ELSE <<errMsg>>)
    \o (IF ParserPeek(p).type # "END_OF_FILE"
        THEN <<" at '">> \o ParserPeek(p).text \o <<"'">> ELSE <<>>)

\* Parser::Expect: [p, tok]; a failed Expect returns a token with empty text
Expect(p, t, errMsg) ==
  IF ParserPeek(p).type = t THEN [p |-> ParserAdvance(p), tok |-> ParserPeek(p)]
  ELSE IF ~IsAtEnd(p)
  THEN [p |-> ParserAdvance(AddError(p, ExpectMessage(p, errMsg))),
        tok |-> Token("UNKNOWN", <<>>, ParserPeek(p).line, ParserPeek(p).col)]
  ELSE [p |-> AddError(p, ExpectMessage(p, errMsg)),
        tok |-> Token("END_OF_FILE", <<>>, ParserPeek(p).line, ParserPeek(p).col)]

TypeKeywords == {"KW_INT", "KW_CHAR", "KW_DOUBLE", "KW_STRING"}

\* the operators of one precedence level, by token type
OperatorText(t) ==
  CASE t = "EQ" -> <<"=", "=">>
    [] t = "NEQ" -> <<"!", "=">>
    [] t = "LT" -> <<"<">>
    [] t = "LE" -> <<"<", "=">>
    [] t = "GT" -> <<">">>
    [] t = "GE" -> <<">", "=">>
    [] t = "PLUS" -> <<"+">>
    [] t = "MINUS" -> <<"-">>
    [] t = "STAR" -> <<"*">>
    [] t = "SLASH" -> <<"/">>
    [] t = "PERCENT" -> <<"%">>

OperatorsOf(level) ==
  CASE level = "ParseEquality" -> {"EQ", "NEQ"}
    [] level = "ParseRelational" -> {"LT", "LE", "GT", "GE"}
    [] level = "ParseAdditive" -> {"PLUS", "MINUS"}
    [] level = "ParseMultiplicative" -> {"STAR", "SLASH", "PERCENT"}

\* ------------------------------------------ the parser, one call at a time

\* One activation of a parser function on the C++ call stack: the function,
\* the place it has reached, its local nodes (node, var), the operator it has
\* matched, and the token position at which the current pass of its loop
\* (start) and of its inner loop (inner) began
Activation(fn, pos) ==
  [fn |-> fn, pc |-> 0, node |-> NullNode, var |-> NullNode, op |-> <<>>,
   start |-> pos, inner |-> pos]

\* the last pass through a loop body the parser completed: the function the
\* loop is in, the tokens the pass consumed, and whether another pass follows
LoopPass(loop, consumed, again) == [loop |-> loop, consumed |-> consumed, again |-> again]

NoPass == LoopPass("", 0, FALSE)

\* the parser at work: its fields p, its call stack, the node the last call
\* returned, and the last completed loop pass; main calls ParseProgram
Parsing(p) ==
  [p |-> p, frames |-> <<Activation("ParseProgram", p.pos_)>>, ret |-> NullNode,
   pass |-> NoPass]

Top(m) == m.frames[Len(m.frames)]

WithTop(m, f) == [m EXCEPT !.frames[Len(m.frames)] = f]

WithP(m, p) == [m EXCEPT !.p = p]

\* the function on top goes on at pc
Goto(m, pc) == WithTop(m, [Top(m) EXCEPT !.pc = pc])

SetNode(m, node) == WithTop(m, [Top(m) EXCEPT !.node = node])

SetVar(m, node) == WithTop(m, [Top(m) EXCEPT !.var = node])

SetOp(m, op) == WithTop(m, [Top(m) EXCEPT !.op = op])

\* node->children.push_back(child) on the local node, and on the local var
AddChild(m, child) == SetNode(m, [Top(m).node EXCEPT !.children = Append(@, child)])

AddVarChild(m, child) == SetVar(m, [Top(m).var EXCEPT !.children = Append(@, child)])

\* a call of fn from the function on top, which goes on at pc when fn returns
CallFn(m, fn, pc) ==
  [m EXCEPT !.frames = Append([@ EXCEPT ![Len(@)].pc = pc], Activation(fn, m.p.pos_))]

\* a call of fn(node)
CallWith(m, fn, pc, node) == SetNode(CallFn(m, fn, pc), node)

\* return node
ReturnNode(m, node) == [m EXCEPT !.frames = Front(@), !.ret = node]

\* Expect(t, errMsg) by the function on top
Expecting(m, t, errMsg) == WithP(m, Expect(m.p, t, errMsg).p)

\* the first pass of the loop of the function on top begins
LoopHead(m) == WithTop(m, [Top(m) EXCEPT !.start = m.p.pos_])

\* a pass of that loop ends and the next begins (continue, or the end of the body)
Round(m) ==
  [LoopHead(m) EXCEPT !.pass = LoopPass(Top(m).fn, m.p.pos_ - Top(m).start, TRUE)]

\* a pass of that loop ends and the loop is left (break)
Exit(m) == [m EXCEPT !.pass = LoopPass(Top(m).fn, m.p.pos_ - Top(m).start, FALSE)]

\* the same for the loop over the arguments of a call
InnerHead(m) == WithTop(m, [Top(m) EXCEPT !.inner = m.p.pos_])

InnerRound(m) ==
  [m EXCEPT !.pass = LoopPass("ParsePrimaryIdTail arguments", m.p.pos_ - Top(m).inner, TRUE)]

\* ParsePrimary without the Advance that skips the unexpected token
UnexpectedTokenKept(p) ==
  AddError(p, <<"unexpected token in expression: '">> \o ParserPeek(p).text \o <<"'">>)

\* ParsePrimary: the unexpected token is reported and skipped
UnexpectedToken(p) ==
  LET q == AddError(p, <<"unexpected token in expression: '">> \o ParserPeek(p).text
                         \o <<"'">>)
  IN IF ~IsAtEnd(q) THEN ParserAdvance(q) ELSE q

\* ParsePrimaryIdTail: the call node before its arguments
CallOn(primary) == ASTNode("Call", <<"C", "a", "l", "l">>, FALSE, <<primary>>)

\* Parser::ParsePrimary: 0 entry, 1 ParseExpression returned, 2
\* ParsePrimaryIdTail returned
ParsePrimary(m) ==
  LET t == ParserPeek(m.p)
      pc == Top(m).pc
  IN IF pc = 0
     THEN CASE t.type = "NUMBER" -> ReturnNode(WithP(m, ParserAdvance(m.p)), Num(t.text))
            [] t.type = "STRING_LITERAL" -> ReturnNode(WithP(m, ParserAdvance(m.p)), Str(t.text))
            [] t.type = "IDENTIFIER" ->
                 CallWith(WithP(m, ParserAdvance(m.p)), "ParsePrimaryIdTail", 2, Id(t.text))
            [] t.type = "LPAREN" -> CallFn(WithP(m, ParserAdvance(m.p)), "ParseExpression", 1)
            [] OTHER -> ReturnNode(WithP(m, UnexpectedToken(m.p)), Num(<<"0">>))
     ELSE IF pc = 1 THEN ReturnNode(Expecting(m, "RPAREN", "expected ')'"), m.ret)
     ELSE ReturnNode(m, m.ret)

\* ParsePrimaryIdTail: the test of while (Match(COMMA)) over the arguments and
\* what follows the loop; var is the call node
ArgumentLoop(m) ==
  LET c == Match(m.p, "COMMA")
  IN IF c.ok THEN CallFn(WithP(InnerHead(m), c.p), "ParseExpression", 2)
     ELSE Goto(Round(SetNode(Expecting(m, "RPAREN", "expected ')'"), Top(m).var)), 0)

\* Parser::ParsePrimaryIdTail: 0 a pass of while (true), node is primary;
\* 1 the first argument returned, 2 a later one, 3 the index returned
ParsePrimaryIdTail(m) ==
  LET pc == Top(m).pc
      call == Match(m.p, "LPAREN")
      close == Match(call.p, "RPAREN")
      index == Match(m.p, "LBRACKET")
  IN IF pc = 0
     THEN IF call.ok
          THEN IF close.ok THEN Round(SetNode(WithP(m, close.p), CallOn(Top(m).node)))
               ELSE CallFn(SetVar(WithP(m, call.p), CallOn(Top(m).node)), "ParseExpression", 1)
          ELSE IF index.ok THEN CallFn(WithP(m, index.p), "ParseExpression", 3)
          ELSE ReturnNode(Exit(m), Top(m).node)
     ELSE IF pc = 1 THEN ArgumentLoop(AddVarChild(m, m.ret))
     ELSE IF pc = 2 THEN ArgumentLoop(InnerRound(AddVarChild(m, m.ret)))
     ELSE Goto(Round(Expecting(SetNode(m, Idx(Top(m).node, m.ret)), "RBRACKET", "expected ']'")), 0)

\* Parser::ParseUnary: 0 entry, 1 the operand of a sign returned, 2
\* ParsePrimary returned
ParseUnary(m) ==
  LET pc == Top(m).pc
      sign == MatchList(m.p, {"PLUS", "MINUS"})
  IN IF pc = 0
     THEN IF sign.ok
          THEN CallFn(SetOp(WithP(m, sign.p), OperatorText(ParserPeek(m.p).type)), "ParseUnary", 1)
          ELSE CallFn(m, "ParsePrimary", 2)
     ELSE IF pc = 1 THEN ReturnNode(m, Un(Top(m).op, m.ret))
     ELSE ReturnNode(m, m.ret)

\* the function ParseEquality .. ParseMultiplicative call for their operands
OperandOf(level) ==
  CASE level = "ParseEquality" -> "ParseRelational"
    [] level = "ParseRelational" -> "ParseAdditive"
    [] level = "ParseAdditive" -> "ParseMultiplicative"
    [] level = "ParseMultiplicative" -> "ParseUnary"

\* a pass of while (true) of ParseEquality .. ParseMultiplicative: node is the
\* left operand
BinaryLoop(m) ==
  LET level == Top(m).fn
      o == MatchList(m.p, OperatorsOf(level))
  IN IF o.ok
     THEN CallFn(SetOp(WithP(m, o.p), OperatorText(ParserPeek(m.p).type)), OperandOf(level), 2)
     ELSE ReturnNode(Exit(m), Top(m).node)

\* Parser::ParseEquality, ParseRelational, ParseAdditive, ParseMultiplicative:
\* 0 entry, 1 the first operand returned, 2 a right operand returned
ParseBinary(m) ==
  LET pc == Top(m).pc
  IN IF pc = 0 THEN CallFn(m, OperandOf(Top(m).fn), 1)
     ELSE IF pc = 1 THEN BinaryLoop(LoopHead(SetNode(m, m.ret)))
     ELSE BinaryLoop(Round(SetNode(m, Bin(Top(m).op, Top(m).node, m.ret))))

\* Parser::ParseAssignment: 0 entry, 1 ParseEquality returned lhs, 2
\* ParseAssignment returned rhs
ParseAssignment(m) ==
  LET pc == Top(m).pc
      a == Match(m.p, "ASSIGN")
      q == IF m.ret.kind \notin {"Identifier", "Index"}
           THEN AddError(a.p, <<"left side of assignment must be variable or array element">>)
           ELSE a.p
  IN IF pc = 0 THEN CallFn(m, "ParseEquality", 1)
     ELSE IF pc = 1
     THEN IF ~a.ok THEN ReturnNode(m, m.ret)
          ELSE CallFn(SetNode(WithP(m, q), m.ret), "ParseAssignment", 2)
     ELSE ReturnNode(m, Asg(Top(m).node, m.ret))

\* the test of while (Match(COMMA)) of ParseExpression: node is left
ExpressionLoop(m) ==
  LET c == Match(m.p, "COMMA")
  IN IF c.ok THEN CallFn(WithP(LoopHead(m), c.p), "ParseAssignment", 2)
     ELSE ReturnNode(m, Top(m).node)

\* Parser::ParseExpression: 0 entry, 1 the first ParseAssignment returned, 2 a
\* later one
ParseExpression(m) ==
  LET pc == Top(m).pc
  IN IF pc = 0 THEN CallFn(m, "ParseAssignment", 1)
     ELSE IF pc = 1 THEN ExpressionLoop(SetNode(m, m.ret))
     ELSE ExpressionLoop(Round(SetNode(m, Comma(Top(m).node, m.ret))))

\* Parser::ParseExprStmt: 0 entry, 1 ParseExpression returned
ParseExprStmt(m) ==
  IF Top(m).pc = 0 THEN CallFn(m, "ParseExpression", 1)
  ELSE ReturnNode(Expecting(m, "SEMICOLON", "expected ';' after expression"), ExprStmt(m.ret))

\* Parser::ParseBreak
ParseBreak(m) ==
  ReturnNode(Expecting(Expecting(m, "KW_BREAK", "expected 'break'"),
                       "SEMICOLON", "expected ';' after break"), Break)

\* Parser::ParseContinue
ParseContinue(m) ==
  ReturnNode(Expecting(Expecting(m, "KW_CONTINUE", "expected 'continue'"),
                       "SEMICOLON", "expected ';' after continue"), Continue)

\* Parser::ParseReturn: 0 entry, 1 ParseExpression returned
ParseReturn(m) ==
  LET e == Expecting(m, "KW_RETURN", "expected 'return'")
  IN IF Top(m).pc = 0
     THEN IF ParserPeek(e.p).type # "SEMICOLON" THEN CallFn(e, "ParseExpression", 1)
          ELSE ReturnNode(Expecting(e, "SEMICOLON", "expected ';' after return"), Return(<<>>))
     ELSE ReturnNode(Expecting(m, "SEMICOLON", "expected ';' after return"), Return(<<m.ret>>))

\* ParseVarDeclList: the declarator var is complete
DeclaratorEnd(m) ==
  LET d == AddChild(m, Top(m).var)
      c == Match(m.p, "COMMA")
  IN IF c.ok THEN Goto(Round(WithP(d, c.p)), 1)
     ELSE ReturnNode(Expecting(Exit(d), "SEMICOLON", "expected ';' after variable list"),
                     Top(d).node)

\* Parser::ParseVarDeclList(Peek().type): 0 entry, 1 a pass of while (true),
\* 2 the initializer returned, 3 the array size returned
ParseVarDeclList(m) ==
  LET pc == Top(m).pc
      e == Expect(m.p, ParserPeek(m.p).type, "expected type").p
      typeTok == e.tokens_[IF e.pos_ > 0 THEN e.pos_ ELSE 1]
      id == Expect(m.p, "IDENTIFIER", "expected variable name")
      varNode == VarDecl(id.tok.text, FALSE, <<>>)
      init == Match(id.p, "ASSIGN")
      size == Match(id.p, "LBRACKET")
      suffix == Match(m.p, "LBRACKET")
  IN IF pc = 0
     THEN Goto(LoopHead(SetNode(WithP(m, e), VarDeclList(typeTok.text, <<>>))), 1)
     ELSE IF pc = 1
     THEN IF init.ok THEN CallFn(SetVar(WithP(m, init.p), varNode), "ParseAssignment", 2)
          ELSE IF size.ok
          THEN CallFn(SetVar(WithP(m, size.p), [varNode EXCEPT !.isArray = TRUE]),
                      "ParseExpression", 3)
          ELSE DeclaratorEnd(SetVar(WithP(m, id.p), varNode))
     ELSE IF pc = 2
     THEN IF suffix.ok
          THEN CallFn(SetVar(WithP(m, suffix.p),
                             [Top(m).var EXCEPT !.isArray = TRUE,
                                                !.children = Append(@, m.ret)]),
                      "ParseExpression", 3)
          ELSE DeclaratorEnd(AddVarChild(m, m.ret))
     ELSE DeclaratorEnd(Expecting(AddVarChild(m, m.ret), "RBRACKET", "expected ']'"))

\* Parser::ParseWhile: 0 entry, 1 the condition returned, 2 the body returned
ParseWhile(m) ==
  LET pc == Top(m).pc
  IN IF pc = 0
     THEN CallFn(Expecting(Expecting(m, "KW_WHILE", "expected 'while'"),
                           "LPAREN", "expected '(' after while"), "ParseExpression", 1)
     ELSE IF pc = 1
     THEN CallFn(SetVar(Expecting(m, "RPAREN", "expected ')' after while condition"), m.ret),
                 "ParseBlock", 2)
     ELSE ReturnNode(m, While(Top(m).var, m.ret))

\* Parser::ParseDoWhile: 0 entry, 1 the body returned, 2 the condition returned
ParseDoWhile(m) ==
  LET pc == Top(m).pc
  IN IF pc = 0 THEN CallFn(Expecting(m, "KW_DO", "expected 'do'"), "ParseBlock", 1)
     ELSE IF pc = 1
     THEN CallFn(SetVar(Expecting(Expecting(m, "KW_WHILE", "expected 'while' after do-block"),
                                  "LPAREN", "expected '(' after while"), m.ret),
                 "ParseExpression", 2)
     ELSE ReturnNode(Expecting(Expecting(m, "RPAREN", "expected ')'"),
                               "SEMICOLON", "expected ';' after do-while"),
                     DoWhile(Top(m).var, m.ret))

\* Parser::ParseIf: 0 entry, 1 the condition returned, 2 the then-block
\* returned, 3 a pass of while (true), 4 the condition of an else-if returned,
\* 5 its block returned, 6 the else-block returned
ParseIf(m) ==
  LET pc == Top(m).pc
      other == Match(m.p, "KW_ELSE")
      elseIf == Match(other.p, "KW_IF")
  IN IF pc = 0
     THEN CallFn(Expecting(Expecting(m, "KW_IF", "expected 'if'"),
                           "LPAREN", "expected '(' after if"), "ParseExpression", 1)
     ELSE IF pc = 1
     THEN CallFn(SetVar(Expecting(m, "RPAREN", "expected ')' after if condition"), m.ret),
                 "ParseBlock", 2)
     ELSE IF pc \in {2, 3}
     THEN LET h == IF pc = 2 THEN LoopHead(SetNode(m, If(Top(m).var, m.ret, <<>>))) ELSE m
          IN IF ~other.ok THEN ReturnNode(Exit(h), Top(h).node)
             ELSE IF elseIf.ok
             THEN CallFn(Expecting(WithP(h, elseIf.p), "LPAREN", "expected '(' after else if"),
                         "ParseExpression", 4)
             ELSE CallFn(WithP(h, other.p), "ParseBlock", 6)
     ELSE IF pc = 4
     THEN CallFn(SetVar(Expecting(m, "RPAREN", "expected ')' after else if cond"), m.ret),
                 "ParseBlock", 5)
     ELSE IF pc = 5 THEN Goto(Round(AddChild(m, ElseIf(Top(m).var, m.ret))), 3)
     ELSE ReturnNode(Exit(AddChild(m, m.ret)), Top(AddChild(m, m.ret)).node)

\* ParseFor with push_back in place of the assignment to children[i]
WithSlotPushed(m, i, child) == AddChild(m, child)

\* ParseFor: children[i] = child
WithSlot(m, i, child) == SetNode(m, [Top(m).node EXCEPT !.children[i] = child])

\* ParseFor, the step part and the call of the body
ForStep(m) ==
  IF ParserPeek(m.p).type # "RPAREN" THEN CallFn(m, "ParseExpression", 4)
  ELSE CallFn(Expecting(m, "RPAREN", "expected ')' after for header"), "ParseBlock", 5)

\* ParseFor, the condition part
ForCondition(m) ==
  IF ParserPeek(m.p).type # "SEMICOLON" THEN CallFn(m, "ParseExpression", 3)
  ELSE ForStep(Expecting(m, "SEMICOLON", "expected ';' after for condition"))

\* Parser::ParseFor: 0 entry, 1 the declaration of the init part returned, 2
\* its expression, 3 the condition, 4 the step, 5 the body
ParseFor(m) ==
  LET pc == Top(m).pc
      h == SetNode(Expecting(Expecting(m, "KW_FOR", "expected 'for'"),
                             "LPAREN", "expected '(' after for"),
                   For(NullNode, NullNode, NullNode, NullNode))
  IN IF pc = 0
     THEN IF ParserPeek(h.p).type \in TypeKeywords THEN CallFn(h, "ParseVarDeclList", 1)
          ELSE IF ParserPeek(h.p).type # "SEMICOLON" THEN CallFn(h, "ParseExpression", 2)
          ELSE ForCondition(Expecting(h, "SEMICOLON", ""))
     ELSE IF pc = 1 THEN ForCondition(WithSlot(m, 1, m.ret))
     ELSE IF pc = 2
     THEN ForCondition(Expecting(WithSlot(m, 1, m.ret), "SEMICOLON",
                                 "expected ';' after for-init expression"))
     ELSE IF pc = 3
     THEN ForStep(Expecting(WithSlot(m, 2, m.ret), "SEMICOLON",
                            "expected ';' after for condition"))
     ELSE IF pc = 4
     THEN CallFn(Expecting(WithSlot(m, 3, m.ret), "RPAREN", "expected ')' after for header"),
                 "ParseBlock", 5)
     ELSE ReturnNode(m, Top(WithSlot(m, 4, m.ret)).node)

\* the function ParseStatement returns the result of, by the current token
StatementOf(t) ==
  CASE t = "LBRACE" -> "ParseBlock"
    [] t = "KW_IF" -> "ParseIf"
    [] t = "KW_WHILE" -> "ParseWhile"
    [] t = "KW_DO" -> "ParseDoWhile"
    [] t = "KW_FOR" -> "ParseFor"
    [] t = "KW_RETURN" -> "ParseReturn"
    [] t = "KW_BREAK" -> "ParseBreak"
    [] t = "KW_CONTINUE" -> "ParseContinue"
    [] t \in TypeKeywords -> "ParseVarDeclList"
    [] OTHER -> "ParseExprStmt"

\* Parser::ParseStatement: 0 entry, 1 the statement's function returned
ParseStatement(m) ==
  IF Top(m).pc = 0 THEN CallFn(m, StatementOf(ParserPeek(m.p).type), 1)
  ELSE ReturnNode(m, m.ret)

\* Parser::ParseBlock: 0 entry, 1 the test of the loop, 2 ParseStatement
\* returned
ParseBlock(m) ==
  LET pc == Top(m).pc
      semi == Match(m.p, "SEMICOLON")
  IN IF pc = 0
     THEN Goto(LoopHead(SetNode(Expecting(m, "LBRACE", "expected '{'"), Block(<<>>))), 1)
     ELSE IF pc = 1
     THEN IF ~IsAtEnd(m.p) /\ ParserPeek(m.p).type # "RBRACE"
          THEN IF semi.ok THEN Round(WithP(m, semi.p))
               ELSE CallFn(m, "ParseStatement", 2)
          ELSE ReturnNode(Expecting(m, "RBRACE", "expected '}'"), Top(m).node)
     ELSE Goto(Round(AddChild(m, m.ret)), 1)

\* ParseFunction: one pass of while (true) over the arguments; node is fnNode
FunctionArgument(m) ==
  LET type == MatchList(m.p, TypeKeywords)
      q == IF type.ok THEN type.p ELSE AddError(m.p, <<"expected argument type">>)
      typeText == IF type.ok THEN ParserPeek(m.p).text ELSE T_int
      name == Expect(q, "IDENTIFIER", "expected argument name")
      array == Match(name.p, "LBRACKET")
      r == IF array.ok THEN Expect(array.p, "RBRACKET", "expected ']'").p ELSE name.p
      c == Match(r, "COMMA")
      a == AddChild(m, FuncArg(typeText, name.tok.text, array.ok))
  IN IF c.ok THEN Round(WithP(a, c.p))
     ELSE CallFn(Exit(WithP(a, Expect(r, "RPAREN", "expected ')' after arguments").p)),
                 "ParseBlock", 2)

\* Parser::ParseFunction: 0 entry, 1 a pass over the arguments, 2 the body
\* returned
ParseFunction(m) ==
  LET pc == Top(m).pc
      fn == Expect(m.p, "KW_FN", "expected 'fn'").p
      type == MatchList(fn, TypeKeywords)
      q == IF type.ok THEN type.p ELSE AddError(fn, <<"expected return type after 'fn'">>)
      retText == IF type.ok THEN ParserPeek(fn).text ELSE T_int
      name == Expect(q, "IDENTIFIER", "expected function name")
      open == Expect(name.p, "LPAREN", "expected '(' after function name").p
      close == Match(open, "RPAREN")
      fnNode == ASTNode("Function", name.tok.text, FALSE, <<MakeTypeNode(retText)>>)
  IN IF pc = 0
     THEN IF close.ok THEN CallFn(SetNode(WithP(m, close.p), fnNode), "ParseBlock", 2)
          ELSE Goto(LoopHead(SetNode(WithP(m, open), fnNode)), 1)
     ELSE IF pc = 1 THEN FunctionArgument(m)
     ELSE ReturnNode(m, Top(AddChild(m, m.ret)).node)

\* Parser::ParseTopLevel: 0 entry, 1 the function or statement returned
ParseTopLevel(m) ==
  IF Top(m).pc = 0
  THEN CallFn(m, IF ParserPeek(m.p).type = "KW_FN" THEN "ParseFunction" ELSE "ParseStatement", 1)
  ELSE ReturnNode(m, m.ret)

\* Parser::ParseProgram: 0 entry, 1 the test of the loop, 2 ParseTopLevel
\* returned
ParseProgram(m) ==
  LET pc == Top(m).pc
      semi == Match(m.p, "SEMICOLON")
  IN IF pc = 0 THEN Goto(LoopHead(SetNode(m, Program(<<>>))), 1)
     ELSE IF pc = 1
     THEN IF IsAtEnd(m.p) THEN ReturnNode(m, Top(m).node)
          ELSE IF semi.ok THEN Round(WithP(m, semi.p))
          ELSE CallFn(m, "ParseTopLevel", 2)
     ELSE Goto(Round(AddChild(m, m.ret)), 1)

BinaryLevels == {"ParseEquality", "ParseRelational", "ParseAdditive", "ParseMultiplicative"}

\* the next step of the parser: the function on top of the call stack goes on
\* to its next call or to its return
ParserStep(m) ==
  LET fn == Top(m).fn
  IN CASE fn = "ParseProgram" -> ParseProgram(m)
       [] fn = "ParseTopLevel" -> ParseTopLevel(m)
       [] fn = "ParseFunction" -> ParseFunction(m)
       [] fn = "ParseBlock" -> ParseBlock(m)
       [] fn = "ParseStatement" -> ParseStatement(m)
       [] fn = "ParseVarDeclList" -> ParseVarDeclList(m)
       [] fn = "ParseIf" -> ParseIf(m)
       [] fn = "ParseWhile" -> ParseWhile(m)
       [] fn = "ParseDoWhile" -> ParseDoWhile(m)
       [] fn = "ParseFor" -> ParseFor(m)
       [] fn = "ParseReturn" -> ParseReturn(m)
       [] fn = "ParseBreak" -> ParseBreak(m)
       [] fn = "ParseContinue" -> ParseContinue(m)
       [] fn = "ParseExprStmt" -> ParseExprStmt(m)
       [] fn = "ParseExpression" -> ParseExpression(m)
       [] fn = "ParseAssignment" -> ParseAssignment(m)
       [] fn \in BinaryLevels -> ParseBinary(m)
       [] fn = "ParseUnary" -> ParseUnary(m)
       [] fn = "ParsePrimary" -> ParsePrimary(m)
       [] fn = "ParsePrimaryIdTail" -> ParsePrimaryIdTail(m)

\* ---------------------------------------------------------------- lexer

\* a byte of 0x80 and above, and the '\0' Peek returns past the end
HighByte == "<80>"

Nul == "<0>"

LowerCase ==
  {"a", "b", "c", "d", "e", "f", "g", "h", "i", "j", "k", "l", "m", "n", "o", "p", "q", "r",
   "s", "t", "u", "v", "w", "x", "y", "z"}

UpperCase ==
  {"A", "B", "C", "D", "E", "F", "G", "H", "I", "J", "K", "L", "M", "N", "O", "P", "Q", "R",
   "S", "T", "U", "V", "W", "X", "Y", "Z"}

\* Lexer::Lexer(src); buffered_token_ is not read before PeekToken sets it.
\* ctype is what isspace and isdigit answer in this run for a byte of 0x80 and
\* above: the lexer passes them a plain char, negative there, which the C
\* library leaves undefined
NewLexer(src, ctype) ==
  [src_ |-> src, pos_ |-> 0, line_ |-> 1, col_ |-> 1,
   buffered_token_ |-> Token("UNKNOWN", <<>>, 0, 0), has_buffered_token_ |-> FALSE,
   ctype |-> ctype]

\* isspace(c) and isdigit(c) as the lexer calls them
isspace(l, c) == IF c = HighByte THEN l.ctype.space ELSE c \in {" ", "\t", "\n", "\r"}

isdigit(l, c) == IF c = HighByte THEN l.ctype.digit ELSE IsDigit(c)

\* Lexer::IsEnd
IsEnd(l) == l.pos_ >= Len(l.src_)

\* Lexer::Peek(offset)
LexerPeek(l, offset) ==
  IF l.pos_ + offset >= Len(l.src_) THEN Nul ELSE l.src_[l.pos_ + offset + 1]

\* Lexer::Get: the lexer after it (the byte it returns is LexerPeek(l, 0))
Get(l) ==
  IF LexerPeek(l, 0) = "\n"
  THEN [l EXCEPT !.pos_ = @ + 1, !.line_ = @ + 1, !.col_ = 1]
  ELSE [l EXCEPT !.pos_ = @ + 1, !.col_ = @ + 1]

RECURSIVE SkipWhitespace(_)
\* Lexer::SkipWhitespace
SkipWhitespace(l) ==
  IF ~IsEnd(l) /\ isspace(l, LexerPeek(l, 0)) THEN SkipWhitespace(Get(l)) ELSE l

\* Lexer::IsLetter: isalpha of the byte as unsigned char, or '_'
IsLetter(c) == c \in LowerCase \cup UpperCase \/ c = "_"

\* Lexer::InitTrie: the keywords and their token types
Keywords ==
  << <<<<"i", "f">>, "KW_IF">>, <<<<"e", "l", "s", "e">>, "KW_ELSE">>,
     <<<<"f", "o", "r">>, "KW_FOR">>, <<<<"w", "h", "i", "l", "e">>, "KW_WHILE">>,
     <<<<"d", "o">>, "KW_DO">>, <<<<"f", "n">>, "KW_FN">>, <<T_int, "KW_INT">>,
     <<<<"c", "h", "a", "r">>, "KW_CHAR">>, <<T_double, "KW_DOUBLE">>,
     <<T_string, "KW_STRING">>, <<<<"r", "e", "t", "u", "r", "n">>, "KW_RETURN">>,
     <<<<"b", "r", "e", "a", "k">>, "KW_BREAK">>,
     <<<<"c", "o", "n", "t", "i", "n", "u", "e">>, "KW_CONTINUE">> >>

\* Trie::Match: the type of the keyword word, "" (for -1) when it is none
TrieMatch(word) ==
  IF \E k \in 1..Len(Keywords) : Keywords[k][1] = word
  THEN Keywords[CHOOSE k \in 1..Len(Keywords) : Keywords[k][1] = word][2]
  ELSE ""

\* Lexer::Make
Make(l, type, text, start_col) == Token(type, text, l.line_, start_col)

\* what a token function returns: the lexer after it and the token
Lexed(l, tok) == [l |-> l, tok |-> tok]

\* Lexer::EndOfFile
EndOfFile(l) == Make(l, "END_OF_FILE", <<>>, l.col_)

RECURSIVE IdentifierLoop(_, _)
\* the loop of Identifier: [l, text]
IdentifierLoop(l, text) ==
  IF ~IsEnd(l) /\ (IsLetter(LexerPeek(l, 0)) \/ isdigit(l, LexerPeek(l, 0))
                     \/ LexerPeek(l, 0) = "_")
  THEN IdentifierLoop(Get(l), Append(text, LexerPeek(l, 0)))
  ELSE [l |-> l, text |-> text]

\* Lexer::Identifier
Identifier(l) ==
  LET r == IdentifierLoop(l, <<>>)
      kw == TrieMatch(r.text)
  IN Lexed(r.l, Make(r.l, IF kw # "" THEN kw ELSE "IDENTIFIER", r.text, l.col_))

RECURSIVE DigitsLoop(_, _)
\* the two loops of Number: [l, text]
DigitsLoop(l, value) ==
  IF ~IsEnd(l) /\ isdigit(l, LexerPeek(l, 0))
  THEN DigitsLoop(Get(l), Append(value, LexerPeek(l, 0)))
  ELSE [l |-> l, text |-> value]

\* Lexer::Number
Number(l) ==
  LET whole == DigitsLoop(l, <<>>)
      r == IF ~IsEnd(whole.l) /\ LexerPeek(whole.l, 0) = "."
              /\ isdigit(l, LexerPeek(whole.l, 1))
           THEN DigitsLoop(Get(whole.l), Append(whole.text, "."))
           ELSE whole
  IN Lexed(r.l, Make(r.l, "NUMBER", r.text, l.col_))

RECURSIVE StringLoop(_, _)
\* the loop of StringLiteral: [l, text]
StringLoop(l, text) ==
  IF ~IsEnd(l) /\ LexerPeek(l, 0) # "\""
  THEN StringLoop(Get(l), Append(text, LexerPeek(l, 0)))
  ELSE [l |-> l, text |-> text]

\* Lexer::StringLiteral: Get, the loop, and Get again whatever stopped the loop
StringLiteral(l) ==
  LET r == StringLoop(Get(l), <<>>)
  IN Lexed(Get(r.l), Make(Get(r.l), "STRING_LITERAL", r.text, l.col_))

\* the one-byte symbols of Symbol and their token types
Symbols ==
  << <<"+", "PLUS">>, <<"-", "MINUS">>, <<"*", "STAR">>, <<"/", "SLASH">>,
     <<"%", "PERCENT">>, <<"(", "LPAREN">>, <<")", "RPAREN">>, <<"{", "LBRACE">>,
     <<"}", "RBRACE">>, <<"[", "LBRACKET">>, <<"]", "RBRACKET">>, <<",", "COMMA">>,
     <<";", "SEMICOLON">> >>

\* the symbols of Symbol that go on with '=': [without it, with it]
Compared ==
  << <<"=", "ASSIGN", "EQ">>, <<"!", "UNKNOWN", "NEQ">>, <<"<", "LT", "LE">>,
     <<">", "GT", "GE">> >>

\* Lexer::Symbol
SymbolToken(l) ==
  LET c == LexerPeek(l, 0)
      g == Get(l)
      startCol == g.col_ - 1
  IN IF \E k \in 1..Len(Symbols) : Symbols[k][1] = c
     THEN Lexed(g, Make(g, Symbols[CHOOSE k \in 1..Len(Symbols) : Symbols[k][1] = c][2],
                        <<c>>, startCol))
     ELSE IF \E k \in 1..Len(Compared) : Compared[k][1] = c
     THEN LET k == CHOOSE k \in 1..Len(Compared) : Compared[k][1] = c
          IN IF LexerPeek(g, 0) = "="
             THEN Lexed(Get(g), Make(Get(g), Compared[k][3], <<c, "=">>, startCol))
             ELSE Lexed(g, Make(g, Compared[k][2], <<c>>, startCol))
     ELSE Lexed(g, Make(g, "UNKNOWN", <<c>>, startCol))

\* Lexer::NextToken with no buffered token
LexToken(l) ==
  LET s == SkipWhitespace(l)
      c == LexerPeek(s, 0)
  IN IF IsEnd(s) THEN Lexed(s, EndOfFile(s))
     ELSE IF IsLetter(c) THEN Identifier(s)
     ELSE IF isdigit(s, c) THEN Number(s)
     ELSE IF c = "\"" THEN StringLiteral(s)
     ELSE SymbolToken(s)

\* Lexer::NextToken
NextToken(l) ==
  IF l.has_buffered_token_
  THEN Lexed([l EXCEPT !.has_buffered_token_ = FALSE], l.buffered_token_)
  ELSE LexToken(l)

\* PeekToken that returns the next token and forgets it
PeekTokenUnbuffered(l) == NextToken(l)

\* Lexer::PeekToken
PeekToken(l) ==
  IF ~l.has_buffered_token_
  THEN LET r == NextToken(l)
       IN Lexed([r.l EXCEPT !.buffered_token_ = r.tok, !.has_buffered_token_ = TRUE], r.tok)
  ELSE Lexed(l, l.buffered_token_)

RECURSIVE TokenizeLoop(_, _)
\* the loop of Tokenize: [l, tokens]
TokenizeLoop(l, tokens) ==
  LET r == NextToken(l)
  IN IF r.tok.type # "END_OF_FILE" THEN TokenizeLoop(r.l, Append(tokens, r.tok))
     ELSE [l |-> r.l, tokens |-> Append(tokens, r.tok)]

\* Lexer::Tokenize: [l, tokens]
Tokenize(l) == TokenizeLoop(l, <<>>)

\* the C locale's answers, and the lexer main has not yet constructed
CLocale == [space |-> FALSE, digit |-> FALSE]

\* the last call on the lexer: NextToken or PeekToken, the token it returned,
\* and the offset at which the lexer began to scan for that token
Answer(call, token, from) == [call |-> call, token |-> token, from |-> from]

NoAnswer == Answer("", Token("UNKNOWN", <<>>, 0, 0), 0)

\* ------------------------------------------------------------- programs

\* fn int f(int p, int q) { return p - q; }
F_f ==
  Function(T_int, <<"f">>, <<FuncArg(T_int, <<"p">>, FALSE), FuncArg(T_int, <<"q">>, FALSE)>>,
           Block(<<Return(<<Bin(<<"-">>, Id(<<"p">>), Id(<<"q">>))>>)>>))

\* fn int g() { }
F_g == Function(T_int, <<"g">>, <<>>, Block(<<>>))

\* fn int h(int b[]) { int a = 9; b[0] = 7; return a; }
F_h ==
  Function(T_int, <<"h">>, <<FuncArg(T_int, <<"b">>, TRUE)>>,
           Block(<< VarDeclList(T_int, <<VarDecl(<<"a">>, FALSE, <<Num(<<"9">>)>>)>>),
                    ExprStmt(Asg(Idx(Id(<<"b">>), Num(<<"0">>)), Num(<<"7">>))),
                    Return(<<Id(<<"a">>)>>) >>))

N_fact == <<"f", "a", "c", "t">>

\* fn int fact(int n) { if (n <= 1) { return 1; } return n * fact(n - 1); }
F_fact ==
  Function(T_int, N_fact, <<FuncArg(T_int, <<"n">>, FALSE)>>,
           Block(<< If(Bin(<<"<", "=">>, Id(<<"n">>), Num(<<"1">>)),
                       Block(<<Return(<<Num(<<"1">>)>>)>>), <<>>),
                    Return(<<Bin(<<"*">>, Id(<<"n">>),
                                 Call(N_fact, <<Bin(<<"-">>, Id(<<"n">>), Num(<<"1">>))>>))>>) >>))

\* int a = 1, c = 0; int b[2];
MainDecls ==
  << VarDeclList(T_int, << VarDecl(<<"a">>, FALSE, <<Num(<<"1">>)>>),
                           VarDecl(<<"c">>, FALSE, <<Num(<<"0">>)>>) >>),
     VarDeclList(T_int, <<VarDecl(<<"b">>, TRUE, <<Num(<<"2">>)>>)>>) >>

Return0 == Return(<<Num(<<"0">>)>>)

\* fn int main() { <stmts> return 0; }
Main(stmts) == Function(T_int, N_main, <<>>, Block(stmts \o <<Return0>>))

\* f, g, h and a main that declares a, c, b[2] and then runs stmts
Prog(stmts) == Program(<<F_f, F_g, F_h, Main(MainDecls \o stmts)>>)

\* the operands expressions are built from; u is declared nowhere
Atoms == {Num(<<"1">>), Id(<<"a">>), Id(<<"u">>)}

Operands ==
  { Num(<<"1">>),
    Asg(Id(<<"a">>), Num(<<"2">>)),
    Call(<<"g">>, <<>>),
    Call(<<"f">>, <<Comma(Num(<<"5">>), Id(<<"a">>))>>),
    Call(N_inputInt, <<>>),
    Idx(Id(<<"b">>), Num(<<"0">>)) }

\* every expression with one operator over operands X
Over(X) ==
  {Un(<<"-">>, x) : x \in X}
    \cup {Asg(Id(<<"c">>), x) : x \in X}
    \cup {Idx(Id(<<"b">>), x) : x \in X}
    \cup {Asg(Idx(Id(<<"b">>), Num(<<"0">>)), x) : x \in X}
    \cup {Call(N_printInt, <<x>>) : x \in X}
    \cup {Bin(<<"+">>, x, y) : x \in X, y \in X}
    \cup {Comma(x, y) : x \in X, y \in X}
    \cup {Call(<<"f">>, <<Comma(x, y)>>) : x \in X, y \in X}

Exprs == Atoms \cup Operands \cup Over(Atoms) \cup Over(Operands)

\* a main whose one statement is the expression statement e;
ExprPrograms == {Prog(<<ExprStmt(e)>>) : e \in Exprs}

IntDecl(name, init) == VarDeclList(T_int, <<VarDecl(name, FALSE, <<init>>)>>)

PrintInt(e) == ExprStmt(Call(N_printInt, <<e>>))

\* fn int main() { printInt(1+2*3); return 0; }
P_arith ==
  Program(<<Main(<<PrintInt(Bin(<<"+">>, Num(<<"1">>),
                               Bin(<<"*">>, Num(<<"2">>), Num(<<"3">>))))>>)>>)

\* fn int main() { int s=0; for(int i=1;i<=3;i=i+1){s=s+i;} printInt(s); return 0; }
P_for ==
  Program(<<Main(<< IntDecl(<<"s">>, Num(<<"0">>)),
                    For(IntDecl(<<"i">>, Num(<<"1">>)),
                        Bin(<<"<", "=">>, Id(<<"i">>), Num(<<"3">>)),
                        Asg(Id(<<"i">>), Bin(<<"+">>, Id(<<"i">>), Num(<<"1">>))),
                        Block(<<ExprStmt(Asg(Id(<<"s">>),
                                             Bin(<<"+">>, Id(<<"s">>), Id(<<"i">>))))>>)),
                    PrintInt(Id(<<"s">>)) >>)>>)

\* fn int main() { printInt(fact(5)); return 0; } with fact
P_fact == Program(<<F_fact, Main(<<PrintInt(Call(N_fact, <<Num(<<"5">>)>>))>>)>>)

\* main: b[0] = 4; c = h(b); printInt(b[0]); printInt(a); printInt(c);
P_array ==
  Prog(<< ExprStmt(Asg(Idx(Id(<<"b">>), Num(<<"0">>)), Num(<<"4">>))),
          ExprStmt(Asg(Id(<<"c">>), Call(<<"h">>, <<Id(<<"b">>)>>))),
          PrintInt(Idx(Id(<<"b">>), Num(<<"0">>))),
          PrintInt(Id(<<"a">>)),
          PrintInt(Id(<<"c">>)) >>)

\* main: c = f(a + 4, 3); printInt(c);
P_args ==
  Prog(<< ExprStmt(Asg(Id(<<"c">>),
                       Call(<<"f">>, <<Comma(Bin(<<"+">>, Id(<<"a">>), Num(<<"4">>)),
                                             Num(<<"3">>))>>))),
          PrintInt(Id(<<"c">>)) >>)

\* main: b[0][1] = 3;   (an index over a non-identifier base)
P_index2 ==
  Prog(<<ExprStmt(Asg(Idx(Idx(Id(<<"b">>), Num(<<"0">>)), Num(<<"1">>)), Num(<<"3">>)))>>)

\* main: a = c = 5;
P_chain == Prog(<<ExprStmt(Asg(Id(<<"a">>), Asg(Id(<<"c">>), Num(<<"5">>))))>>)

\* main: if (a = 0) { }
P_ifassign == Prog(<<If(Asg(Id(<<"a">>), Num(<<"0">>)), Block(<<>>), <<>>)>>)

\* main: -k();   (k is declared nowhere)
P_undeclaredCall == Prog(<<ExprStmt(Un(<<"-">>, Call(<<"k">>, <<>>)))>>)

\* main: for (u = 0, a = 0; a < 1; a = a + 1) { }   (u is declared nowhere)
P_forComma ==
  Prog(<<For(Comma(Asg(Id(<<"u">>), Num(<<"0">>)), Asg(Id(<<"a">>), Num(<<"0">>))),
             Bin(<<"<">>, Id(<<"a">>), Num(<<"1">>)),
             Asg(Id(<<"a">>), Bin(<<"+">>, Id(<<"a">>), Num(<<"1">>))),
             Block(<<>>))>>)

\* main: while (a < 3) { a = a + 1; if (a == 2) { continue; } else { } }
\*       do { a = a - 1; if (a <= 1) { break; } } while (1);
P_loops ==
  Prog(<< While(Bin(<<"<">>, Id(<<"a">>), Num(<<"3">>)),
                Block(<< ExprStmt(Asg(Id(<<"a">>), Bin(<<"+">>, Id(<<"a">>), Num(<<"1">>)))),
                         If(Bin(<<"=", "=">>, Id(<<"a">>), Num(<<"2">>)),
                            Block(<<Continue>>), <<Block(<<>>)>>) >>)),
          DoWhile(Block(<< ExprStmt(Asg(Id(<<"a">>), Bin(<<"-">>, Id(<<"a">>), Num(<<"1">>)))),
                           If(Bin(<<"<", "=">>, Id(<<"a">>), Num(<<"1">>)),
                              Block(<<Break>>), <<>>) >>),
                  Num(<<"1">>)) >>)

\* fn int main() { string s = "hi"; printStr(s + " " + "there"); return 0; }
P_string ==
  Program(<<Main(<< VarDeclList(T_string, <<VarDecl(<<"s">>, FALSE, <<Str(<<"h", "i">>)>>)>>),
                    ExprStmt(Call(N_printStr,
                                  <<Bin(<<"+">>, Bin(<<"+">>, Id(<<"s">>), Str(<<" ">>)),
                                        Str(<<"t", "h", "e", "r", "e">>))>>)) >>)>>)

\* fn int main() { double d = 1; printDouble(d / 2); printDouble(1.5 * 2); return 0; }
P_double ==
  Program(<<Main(<< VarDeclList(T_double, <<VarDecl(<<"d">>, FALSE, <<Num(<<"1">>)>>)>>),
                    ExprStmt(Call(N_printDouble,
                                  <<Bin(<<"/">>, Id(<<"d">>), Num(<<"2">>))>>)),
                    ExprStmt(Call(N_printDouble,
                                  <<Bin(<<"*">>, Num(<<"1", ".", "5">>), Num(<<"2">>))>>)) >>)>>)

\* fn int main() { int x = inputInt(); string s = inputStr(); double d = inputDouble();
\*                 printInt(x); printStr(s); printDouble(d); return 0; }
P_input ==
  Program(<<Main(<< IntDecl(<<"x">>, Call(N_inputInt, <<>>)),
                    VarDeclList(T_string,
                                <<VarDecl(<<"s">>, FALSE, <<Call(N_inputStr, <<>>)>>)>>),
                    VarDeclList(T_double,
                                <<VarDecl(<<"d">>, FALSE, <<Call(N_inputDouble, <<>>)>>)>>),
                    PrintInt(Id(<<"x">>)),
                    ExprStmt(Call(N_printStr, <<Id(<<"s">>)>>)),
                    ExprStmt(Call(N_printDouble, <<Id(<<"d">>)>>)) >>)>>)

\* fn int L0(int p) { while (0) { } return p; }
\* fn int main() { int r = L0(4); printInt(r); return 0; }
P_labelName ==
  Program(<< Function(T_int, <<"L", "0">>, <<FuncArg(T_int, <<"p">>, FALSE)>>,
                      Block(<<While(Num(<<"0">>), Block(<<>>)), Return(<<Id(<<"p">>)>>)>>)),
             Main(<< IntDecl(<<"r">>, Call(<<"L", "0">>, <<Num(<<"4">>)>>)),
                     PrintInt(Id(<<"r">>)) >>) >>)

\* fn int vsuprun(int p) { return p; }
\* fn int main() { int r = vsuprun(5); printInt(r); return 0; }
P_vsuprun ==
  Program(<< Function(T_int, N_vsuprun, <<FuncArg(T_int, <<"p">>, FALSE)>>,
                      Block(<<Return(<<Id(<<"p">>)>>)>>)),
             Main(<< IntDecl(<<"r">>, Call(N_vsuprun, <<Num(<<"5">>)>>)),
                     PrintInt(Id(<<"r">>)) >>) >>)

\* f(5, 3); printInt(1);  fn int f(...)      (no main; no STORE before the call)
P_topCall ==
  Program(<< ExprStmt(Call(<<"f">>, <<Comma(Num(<<"5">>), Num(<<"3">>))>>)),
             PrintInt(Num(<<"1">>)),
             F_f >>)

\* int a = 1; a = f(5, 3); printInt(a);  fn int f(...)   (no main; a STORE first)
P_topStoreCall ==
  Program(<< IntDecl(<<"a">>, Num(<<"1">>)),
             ExprStmt(Asg(Id(<<"a">>), Call(<<"f">>, <<Comma(Num(<<"5">>), Num(<<"3">>))>>))),
             PrintInt(Id(<<"a">>)),
             F_f >>)

\* printInt(2);   (no main, no function: the instruction pointer runs off the end)
P_topOnly == Program(<<PrintInt(Num(<<"2">>))>>)

\* -(u[0] = 1);   (no main, no function, u declared nowhere)
P_topIndexStore ==
  Program(<<ExprStmt(Un(<<"-">>, Asg(Idx(Id(<<"u">>), Num(<<"0">>)), Num(<<"1">>))))>>)

\* main: if (u == 1) { }   (u is declared nowhere)
P_ifUndeclared ==
  Prog(<<If(Bin(<<"=", "=">>, Id(<<"u">>), Num(<<"1">>)), Block(<<>>), <<>>)>>)

\* fn int main() { return u; }   (u is declared nowhere)
P_returnUndeclared ==
  Program(<<Function(T_int, N_main, <<>>, Block(<<Return(<<Id(<<"u">>)>>)>>))>>)

\* fn int main() { double d = 1.5; int a = 7; d = a % d; d = d - a;
\*                 a = a * a; d = d / d; return 0; }
P_mixedArith ==
  Program(<<Main(<< VarDeclList(T_double,
                                <<VarDecl(<<"d">>, FALSE, <<Num(<<"1", ".", "5">>)>>)>>),
                    IntDecl(<<"a">>, Num(<<"7">>)),
                    ExprStmt(Asg(Id(<<"d">>), Bin(<<"%">>, Id(<<"a">>), Id(<<"d">>)))),
                    ExprStmt(Asg(Id(<<"d">>), Bin(<<"-">>, Id(<<"d">>), Id(<<"a">>)))),
                    ExprStmt(Asg(Id(<<"a">>), Bin(<<"*">>, Id(<<"a">>), Id(<<"a">>)))),
                    ExprStmt(Asg(Id(<<"d">>), Bin(<<"/">>, Id(<<"d">>), Id(<<"d">>)))) >>)>>)

\* fn int k(int p) { int p = 2;
\*                   for (int i = 0; i < 1; i = i + 1) { int i = 5; p = p + i; }
\*                   return p; }
\* fn int main() { printInt(k(1)); return 0; }
P_shadow ==
  Program(<< Function(T_int, <<"k">>, <<FuncArg(T_int, <<"p">>, FALSE)>>,
               Block(<< IntDecl(<<"p">>, Num(<<"2">>)),
                        For(IntDecl(<<"i">>, Num(<<"0">>)),
                            Bin(<<"<">>, Id(<<"i">>), Num(<<"1">>)),
                            Asg(Id(<<"i">>), Bin(<<"+">>, Id(<<"i">>), Num(<<"1">>))),
                            Block(<< IntDecl(<<"i">>, Num(<<"5">>)),
                                     ExprStmt(Asg(Id(<<"p">>),
                                                  Bin(<<"+">>, Id(<<"p">>), Id(<<"i">>)))) >>)),
                        Return(<<Id(<<"p">>)>>) >>)),
             Main(<<PrintInt(Call(<<"k">>, <<Num(<<"1">>)>>))>>) >>)

\* fn int g() { }  fn int g() { }
\* fn int main() { int a = 1; int a = 2; { int a = 3; } return 0; }
P_duplicate ==
  Program(<< F_g, F_g,
             Main(<< IntDecl(<<"a">>, Num(<<"1">>)), IntDecl(<<"a">>, Num(<<"2">>)),
                     Block(<<IntDecl(<<"a">>, Num(<<"3">>))>>) >>) >>)

\* break; return 1;
\* while (0) { break; if (1) { continue; } else { break; } }
\* do { continue; } while (0);
\* fn int main() { for (int i = 0; i < 1; i = i + 1) { continue; }
\*                 if (1) { break; } continue; return 0; }
P_strayJumps ==
  Program(<< Break, Return(<<Num(<<"1">>)>>),
             While(Num(<<"0">>),
                   Block(<< Break,
                            If(Num(<<"1">>), Block(<<Continue>>), <<Block(<<Break>>)>>) >>)),
             DoWhile(Block(<<Continue>>), Num(<<"0">>)),
             Main(<< For(IntDecl(<<"i">>, Num(<<"0">>)),
                         Bin(<<"<">>, Id(<<"i">>), Num(<<"1">>)),
                         Asg(Id(<<"i">>), Bin(<<"+">>, Id(<<"i">>), Num(<<"1">>))),
                         Block(<<Continue>>)),
                     If(Num(<<"1">>), Block(<<Break>>), <<>>),
                     Continue >>) >>)

\* fn string t() { return "hi"; }
F_t == Function(T_string, <<"t">>, <<>>, Block(<<Return(<<Str(<<"h", "i">>)>>)>>))

\* main: printStr(t()[1]); printStr(t()[7]); printInt(b[5]); printInt(b[0 - 1]);
\*       printInt(h(b)[0]);   with t, and b[2] of main
P_indexRange ==
  Program(<< F_h, F_t,
             Main(MainDecls \o
                  << ExprStmt(Call(N_printStr, <<Idx(Call(<<"t">>, <<>>), Num(<<"1">>))>>)),
                     ExprStmt(Call(N_printStr, <<Idx(Call(<<"t">>, <<>>), Num(<<"7">>))>>)),
                     PrintInt(Idx(Id(<<"b">>), Num(<<"5">>))),
                     PrintInt(Idx(Id(<<"b">>), Bin(<<"-">>, Num(<<"0">>), Num(<<"1">>)))),
                     PrintInt(Idx(Call(<<"h">>, <<Id(<<"b">>)>>), Num(<<"0">>))) >>) >>)

\* int z[2];
\* fn int main() { int a = 1, c = 0; int b[2];
\*                 b[1] = 2; b[3] = 5; b[0 - 1] = 6; z[1] = 3; b[1] = a; return 0; }
P_storeIndex ==
  Program(<< VarDeclList(T_int, <<VarDecl(<<"z">>, TRUE, <<Num(<<"2">>)>>)>>),
             Main(MainDecls \o
                  << ExprStmt(Asg(Idx(Id(<<"b">>), Num(<<"1">>)), Num(<<"2">>))),
                     ExprStmt(Asg(Idx(Id(<<"b">>), Num(<<"3">>)), Num(<<"5">>))),
                     ExprStmt(Asg(Idx(Id(<<"b">>), Bin(<<"-">>, Num(<<"0">>), Num(<<"1">>))),
                                  Num(<<"6">>))),
                     ExprStmt(Asg(Idx(Id(<<"z">>), Num(<<"1">>)), Num(<<"3">>))),
                     ExprStmt(Asg(Idx(Id(<<"b">>), Num(<<"1">>)), Id(<<"a">>))) >>) >>)

\* fn int main() { int n = 2; int w[n + 1], v = 1 [3]; return 0; }
P_arrayDecl ==
  Program(<<Main(<< IntDecl(<<"n">>, Num(<<"2">>)),
                    VarDeclList(T_int,
                      << VarDecl(<<"w">>, TRUE, <<Bin(<<"+">>, Id(<<"n">>), Num(<<"1">>))>>),
                         VarDecl(<<"v">>, TRUE, <<Num(<<"1">>), Num(<<"3">>)>>) >>) >>)>>)

\* main: for (c = 0; c < 3; c = c + 1) { if (c == 1) { continue; } if (c == 2) { break; }
\*                                       a = a + 1; }
\*       for (; a < 9; f(5, 3)) { a = a + 4; }
P_forSteps ==
  Prog(<< For(Asg(Id(<<"c">>), Num(<<"0">>)),
              Bin(<<"<">>, Id(<<"c">>), Num(<<"3">>)),
              Asg(Id(<<"c">>), Bin(<<"+">>, Id(<<"c">>), Num(<<"1">>))),
              Block(<< If(Bin(<<"=", "=">>, Id(<<"c">>), Num(<<"1">>)),
                          Block(<<Continue>>), <<>>),
                       If(Bin(<<"=", "=">>, Id(<<"c">>), Num(<<"2">>)),
                          Block(<<Break>>), <<>>),
                       ExprStmt(Asg(Id(<<"a">>),
                                    Bin(<<"+">>, Id(<<"a">>), Num(<<"1">>)))) >>)),
          For(NullNode,
              Bin(<<"<">>, Id(<<"a">>), Num(<<"9">>)),
              Call(<<"f">>, <<Comma(Num(<<"5">>), Num(<<"3">>))>>),
              Block(<<ExprStmt(Asg(Id(<<"a">>),
                                   Bin(<<"+">>, Id(<<"a">>), Num(<<"4">>))))>>)) >>)

\* main: do { for (c = 0; c < 2; c = c + 1) {
\*              while (a < 3) { a = a + 1; if (a == 2) { continue; } break; }
\*              if (c == 1) { break; }
\*              continue; }
\*            a = a + 1;
\*            if (a > 9) { continue; }
\*            break; } while (a < 4);
P_nested ==
  Prog(<< DoWhile(
            Block(<< For(Asg(Id(<<"c">>), Num(<<"0">>)),
                         Bin(<<"<">>, Id(<<"c">>), Num(<<"2">>)),
                         Asg(Id(<<"c">>), Bin(<<"+">>, Id(<<"c">>), Num(<<"1">>))),
                         Block(<< While(Bin(<<"<">>, Id(<<"a">>), Num(<<"3">>)),
                                        Block(<< ExprStmt(Asg(Id(<<"a">>),
                                                   Bin(<<"+">>, Id(<<"a">>), Num(<<"1">>)))),
                                                 If(Bin(<<"=", "=">>, Id(<<"a">>), Num(<<"2">>)),
                                                    Block(<<Continue>>), <<>>),
                                                 Break >>)),
                                  If(Bin(<<"=", "=">>, Id(<<"c">>), Num(<<"1">>)),
                                     Block(<<Break>>), <<>>),
                                  Continue >>)),
                     ExprStmt(Asg(Id(<<"a">>), Bin(<<"+">>, Id(<<"a">>), Num(<<"1">>)))),
                     If(Bin(<<">">>, Id(<<"a">>), Num(<<"9">>)), Block(<<Continue>>), <<>>),
                     Break >>),
            Bin(<<"<">>, Id(<<"a">>), Num(<<"4">>))) >>)

\* main: for (c = 0; c < 4; c = c + 1) {
\*         if (c == 0) { a = 5; } else if (c == 1) { a = 6; } else if (c == 1) { a = 9; }
\*         else { a = 7; printInt(a); }
\*         if (c == 7) { } else if (a == 6) { printInt(c); } }
P_chains ==
  Prog(<< For(Asg(Id(<<"c">>), Num(<<"0">>)),
              Bin(<<"<">>, Id(<<"c">>), Num(<<"4">>)),
              Asg(Id(<<"c">>), Bin(<<"+">>, Id(<<"c">>), Num(<<"1">>))),
              Block(<< If(Bin(<<"=", "=">>, Id(<<"c">>), Num(<<"0">>)),
                          Block(<<ExprStmt(Asg(Id(<<"a">>), Num(<<"5">>)))>>),
                          << ElseIf(Bin(<<"=", "=">>, Id(<<"c">>), Num(<<"1">>)),
                                    Block(<<ExprStmt(Asg(Id(<<"a">>), Num(<<"6">>)))>>)),
                             ElseIf(Bin(<<"=", "=">>, Id(<<"c">>), Num(<<"1">>)),
                                    Block(<<ExprStmt(Asg(Id(<<"a">>), Num(<<"9">>)))>>)),
                             Block(<< ExprStmt(Asg(Id(<<"a">>), Num(<<"7">>))),
                                      PrintInt(Id(<<"a">>)) >>) >>),
                       If(Bin(<<"=", "=">>, Id(<<"c">>), Num(<<"7">>)),
                          Block(<<>>),
                          <<ElseIf(Bin(<<"=", "=">>, Id(<<"a">>), Num(<<"6">>)),
                                   Block(<<PrintInt(Id(<<"c">>))>>))>>) >>)) >>)

\* int g0 = 5;  fn int main() { printInt(g0); return 0; }
P_global ==
  Program(<< IntDecl(<<"g", "0">>, Num(<<"5">>)),
             Main(<<PrintInt(Id(<<"g", "0">>))>>) >>)

\* main: do { a = a + 1; if (a < 3) { continue; } } while (0); printInt(a);
P_doContinue ==
  Prog(<< DoWhile(Block(<< ExprStmt(Asg(Id(<<"a">>), Bin(<<"+">>, Id(<<"a">>), Num(<<"1">>)))),
                           If(Bin(<<"<">>, Id(<<"a">>), Num(<<"3">>)),
                              Block(<<Continue>>), <<>>) >>),
                  Num(<<"0">>)),
          PrintInt(Id(<<"a">>)) >>)

T_char == <<"c", "h", "a", "r">>

\* fn int main() { int i4[2]; char c4[2]; double d4[2]; string s4[2]; return 0; }
P_arrayTypes ==
  Program(<<Main(<< VarDeclList(T_int, <<VarDecl(<<"i", "4">>, TRUE, <<Num(<<"2">>)>>)>>),
                    VarDeclList(T_char, <<VarDecl(<<"c", "4">>, TRUE, <<Num(<<"2">>)>>)>>),
                    VarDeclList(T_double, <<VarDecl(<<"d", "4">>, TRUE, <<Num(<<"2">>)>>)>>),
                    VarDeclList(T_string, <<VarDecl(<<"s", "4">>, TRUE, <<Num(<<"2">>)>>)>>) >>)>>)

NamedPrograms ==
  { P_arrayTypes, P_doContinue, P_global, P_chains, P_nested, P_forSteps, P_arrayDecl, P_storeIndex, P_indexRange, P_strayJumps, P_shadow, P_duplicate, P_mixedArith, P_ifUndeclared, P_returnUndeclared, P_arith, P_for, P_fact, P_array, P_args, P_index2, P_chain, P_ifassign,
    P_undeclaredCall, P_forComma, P_loops, P_string, P_double, P_input, P_labelName,
    P_vsuprun, P_topCall, P_topStoreCall, P_topOnly, P_topIndexStore }

\* the ASTs the pipeline is run on: each is a tree ParseProgram builds for
\* some source text without a syntax diagnostic
Programs == NamedPrograms \cup ExprPrograms

\* ------------------------------------------------------------- pipeline

VARIABLES
  phase,        \* where the pipeline is: parsed, analyzed, rejected, generated,
                \* constructed, then the VM's running, halted, aborted, unmodelled
  ast,          \* the program ParseProgram returned
  errors_,      \* SemanticAnalyzer::errors_
  code_,        \* the instruction list Generate returned, VM::code_
  label_map_,   \* VM::label_map_
  ip,           \* the local ip of VM::Run
  stack_,       \* VM::stack_
  call_stack_,  \* VM::call_stack_
  error,        \* what() of the runtime_error Run threw
  cout,         \* what the built-ins wrote to standard output
  steps,        \* instructions executed so far
  parser,       \* the Parser's fields tokens_, pos_, errors_
  frames,       \* the activations of the parser's functions, innermost last
  result,       \* the node the parser's last call returned
  pass,         \* the last pass through a loop body the parser completed
  lexer,        \* the Lexer's fields, and what its C library answers
  returned,     \* the tokens NextToken returned to the lexer's client
  answer,       \* the last call on the lexer and what it returned
  mode,         \* idle, calls (the client calls the lexer), tokenizing, tokenized
  tokenized     \* the local vector tokens of Tokenize

\* the front end's variables, which the driver's later stages leave alone
lexerVars == <<lexer, returned, answer, mode, tokenized>>

frontVars == <<parser, frames, result, pass, lexerVars>>

\* main has not constructed a Lexer
LexerIdle ==
  /\ lexer = NewLexer(<<>>, CLocale)
  /\ returned = <<>>
  /\ answer = NoAnswer
  /\ mode = "idle"
  /\ tokenized = <<>>

vars ==
  <<phase, ast, errors_, code_, label_map_, ip, stack_, call_stack_, error, cout, steps,
    frontVars>>

\* the VM's state as one record
M == Machine(ip, stack_, call_stack_, phase, error, cout)

SetMachine(m) ==
  /\ ip' = m.ip
  /\ stack_' = m.stack_
  /\ call_stack_' = m.call_stack_
  /\ phase' = m.status
  /\ error' = m.error
  /\ cout' = m.cout

Init ==
  /\ ast \in Programs
  /\ phase = "parsed"
  /\ errors_ = <<>>
  /\ code_ = <<>>
  /\ label_map_ = <<>>
  /\ ip = 0
  /\ stack_ = <<>>
  /\ call_stack_ = <<>>
  /\ error = ""
  /\ cout = <<>>
  /\ steps = 0
  /\ parser = NewParser(<<>>)
  /\ frames = <<>>
  /\ result = NullNode
  /\ pass = NoPass
  /\ LexerIdle

\* main: sema.Analyze(program); the driver stops when there are diagnostics
DoAnalyze ==
  /\ phase = "parsed"
  /\ errors_' = Analyze(ast).errors_
  /\ phase' = IF errors_' = <<>> THEN "analyzed" ELSE "rejected"
  /\ UNCHANGED <<ast, code_, label_map_, ip, stack_, call_stack_, error, cout, steps>>
  /\ UNCHANGED frontVars

\* main: generator.Generate(program)
DoGenerate ==
  /\ phase = "analyzed"
  /\ code_' = Generate(ast).code_
  /\ phase' = "generated"
  /\ UNCHANGED <<ast, errors_, label_map_, ip, stack_, call_stack_, error, cout, steps>>
  /\ UNCHANGED frontVars

\* VM::VM(code)
DoConstruct ==
  /\ phase = "generated"
  /\ label_map_' = BuildLabelMap(code_)
  /\ phase' = "constructed"
  /\ UNCHANGED <<ast, errors_, code_, ip, stack_, call_stack_, error, cout, steps>>
  /\ UNCHANGED frontVars

\* VM::Run up to its loop
DoRunStart ==
  /\ phase = "constructed"
  /\ SetMachine(RunStart(code_, label_map_))
  /\ UNCHANGED <<ast, errors_, code_, label_map_, steps>>
  /\ UNCHANGED frontVars

InputBuiltins == {N_inputInt, N_inputDouble, N_inputStr, N_vsuprun}

\* what the environment may supply to a CALL of name
InputsFor(name) == IF name \in InputBuiltins THEN 0..MaxInput ELSE {0}

\* Run's loop is about to execute an instruction whose opcode is in ops
At(ops) ==
  /\ phase = "running"
  /\ steps < MaxSteps
  /\ ip < Len(code_)
  /\ code_[ip + 1].op \in ops

\* const auto &ins = code_[ip]
Ins == code_[ip + 1]

\* the iteration of Run's loop leaves the VM as m
Becomes(m) ==
  /\ SetMachine(m)
  /\ steps' = steps + 1
  /\ UNCHANGED <<ast, errors_, code_, label_map_>>
  /\ UNCHANGED frontVars

StepPop        == At({"POP"}) /\ Becomes(Advance(PopN(M, 1)))
StepPushInt    == At({"PUSH_INT"}) /\ Becomes(Advance(HandlePushInt(M, Ins.arg)))
StepPushDouble == At({"PUSH_DOUBLE"}) /\ Becomes(Advance(HandlePushDouble(M, Ins.arg)))
StepPushString == At({"PUSH_STRING"}) /\ Becomes(Advance(HandlePushString(M, Ins.arg)))
StepLoad       == At({"LOAD"}) /\ Becomes(Advance(HandleLoad(M, Ins.arg)))
StepStore      == At({"STORE"}) /\ Becomes(Advance(HandleStore(M, Ins.arg, Len(code_))))
StepNewArray   == At({"NEW_ARRAY"}) /\ Becomes(Advance(HandleNewArray(M)))
StepLoadIndex  == At({"LOAD_INDEX"}) /\ Becomes(Advance(HandleLoadIndex(M)))
StepStoreIndex == At({"STORE_INDEX"}) /\ Becomes(Advance(HandleStoreIndex(M, Ins.arg)))
StepBinaryOp   == At(BinaryOps) /\ Becomes(Advance(HandleBinaryOp(M, Ins.op)))
StepUnaryOp    == At(UnaryOps) /\ Becomes(Advance(HandleUnaryOp(M, Ins.op)))
StepJmp        == At({"JMP"}) /\ Becomes(RunJmp(M, label_map_, Ins.arg))
StepJz         == At({"JZ"}) /\ Becomes(RunJz(M, label_map_, Ins.arg))
StepCall       ==
  /\ At({"CALL"})
  /\ \E inp \in InputsFor(Ins.arg) : Becomes(RunCall(M, label_map_, Ins.arg, inp))
StepRet        == At({"RET"}) /\ Becomes(RunRet(M))
StepLabel      == At({"LABEL"}) /\ Becomes(Advance(M))

\* Run's loop ends because ip reached the end of the code
StepOffEnd ==
  /\ phase = "running"
  /\ ip >= Len(code_)
  /\ SetMachine(RunOffEnd(M))
  /\ UNCHANGED <<ast, errors_, code_, label_map_, steps>>
  /\ UNCHANGED frontVars

Next ==
  \/ DoAnalyze
  \/ DoGenerate
  \/ DoConstruct
  \/ DoRunStart
  \/ StepPop
  \/ StepPushInt
  \/ StepPushDouble
  \/ StepPushString
  \/ StepLoad
  \/ StepStore
  \/ StepNewArray
  \/ StepLoadIndex
  \/ StepStoreIndex
  \/ StepBinaryOp
  \/ StepUnaryOp
  \/ StepJmp
  \/ StepJz
  \/ StepCall
  \/ StepRet
  \/ StepLabel
  \/ StepOffEnd

Spec == Init /\ [][Next]_vars

\* ------------------------------------------------- the parser on tokens

\* a token before its place in a list is known
Tok(type, text) == Token(type, text, 0, 0)

K_fn       == Tok("KW_FN", <<"f", "n">>)
K_int      == Tok("KW_INT", T_int)
K_double   == Tok("KW_DOUBLE", T_double)
K_if       == Tok("KW_IF", <<"i", "f">>)
K_else     == Tok("KW_ELSE", <<"e", "l", "s", "e">>)
K_while    == Tok("KW_WHILE", <<"w", "h", "i", "l", "e">>)
K_do       == Tok("KW_DO", <<"d", "o">>)
K_for      == Tok("KW_FOR", <<"f", "o", "r">>)
K_return   == Tok("KW_RETURN", <<"r", "e", "t", "u", "r", "n">>)
K_break    == Tok("KW_BREAK", <<"b", "r", "e", "a", "k">>)
K_continue == Tok("KW_CONTINUE", <<"c", "o", "n", "t", "i", "n", "u", "e">>)
Ident(name)  == Tok("IDENTIFIER", name)
Numeral(text) == Tok("NUMBER", text)
Literal(text) == Tok("STRING_LITERAL", text)
S_lparen   == Tok("LPAREN", <<"(">>)
S_rparen   == Tok("RPAREN", <<")">>)
S_lbrace   == Tok("LBRACE", <<"{">>)
S_rbrace   == Tok("RBRACE", <<"}">>)
S_lbracket == Tok("LBRACKET", <<"[">>)
S_rbracket == Tok("RBRACKET", <<"]">>)
S_semi     == Tok("SEMICOLON", <<";">>)
S_comma    == Tok("COMMA", <<",">>)
S_assign   == Tok("ASSIGN", <<"=">>)
S_eq       == Tok("EQ", <<"=", "=">>)
S_lt       == Tok("LT", <<"<">>)
S_plus     == Tok("PLUS", <<"+">>)
S_minus    == Tok("MINUS", <<"-">>)
S_star     == Tok("STAR", <<"*">>)
S_unknown  == Tok("UNKNOWN", <<"@">>)

\* the list s closed by end_of_file, every token on line 1 at the column of
\* its place
TokenList(s) ==
  [i \in 1..Len(s) + 1 |->
     IF i <= Len(s) THEN Token(s[i].type, s[i].text, 1, i)
     ELSE Token("END_OF_FILE", <<>>, 1, i)]

\* fn int f(int p, int q[]) { for (;;) { } return p - q; }
L_function ==
  << K_fn, K_int, Ident(<<"f">>), S_lparen, K_int, Ident(<<"p">>), S_comma, K_int,
     Ident(<<"q">>), S_lbracket, S_rbracket, S_rparen, S_lbrace, K_for, S_lparen, S_semi,
     S_semi, S_rparen, S_lbrace, S_rbrace, K_return, Ident(<<"p">>),
     S_minus, Ident(<<"q">>), S_semi, S_rbrace >>

\* for (int i = 0; i < 1; i = i + 1) { a = a * i; }
L_for ==
  << K_for, S_lparen, K_int, Ident(<<"i">>), S_assign, Numeral(<<"0">>), S_semi,
     Ident(<<"i">>), S_lt, Numeral(<<"1">>), S_semi, Ident(<<"i">>), S_assign,
     Ident(<<"i">>), S_plus, Numeral(<<"1">>), S_rparen, S_lbrace, Ident(<<"a">>),
     S_assign, Ident(<<"a">>), S_star, Ident(<<"i">>), S_semi, S_rbrace >>

\* for (;;) { break; }  for (a = 0;;) { }
L_forEmpty ==
  << K_for, S_lparen, S_semi, S_semi, S_rparen, S_lbrace, K_break, S_semi, S_rbrace,
     K_for, S_lparen, Ident(<<"a">>), S_assign, Numeral(<<"0">>), S_semi, S_semi,
     S_rparen, S_lbrace, S_rbrace >>

\* if (a == 1) { } else if (a) { } else { continue; }
L_if ==
  << K_if, S_lparen, Ident(<<"a">>), S_eq, Numeral(<<"1">>), S_rparen, S_lbrace, S_rbrace,
     K_else, K_if, S_lparen, Ident(<<"a">>), S_rparen, S_lbrace, S_rbrace,
     K_else, S_lbrace, K_continue, S_semi, S_rbrace >>

\* while (a) { } do { } while (0);
L_loops ==
  << K_while, S_lparen, Ident(<<"a">>), S_rparen, S_lbrace, S_rbrace,
     K_do, S_lbrace, S_rbrace, K_while, S_lparen, Numeral(<<"0">>), S_rparen, S_semi >>

\* double a = 1, b[2], c = 1 [2]; ;
L_decl ==
  << K_double, Ident(<<"a">>), S_assign, Numeral(<<"1">>), S_comma, Ident(<<"b">>),
     S_lbracket, Numeral(<<"2">>), S_rbracket, S_comma, Ident(<<"c">>), S_assign,
     Numeral(<<"1">>), S_lbracket, Numeral(<<"2">>), S_rbracket, S_semi, S_semi >>

\* a[1] = f(a, -1) * (2 + "s"), 3;
L_expr ==
  << Ident(<<"a">>), S_lbracket, Numeral(<<"1">>), S_rbracket, S_assign, Ident(<<"f">>),
     S_lparen, Ident(<<"a">>), S_comma, S_minus, Numeral(<<"1">>), S_rparen, S_star,
     S_lparen, Numeral(<<"2">>), S_plus, Literal(<<"s">>), S_rparen, S_comma,
     Numeral(<<"3">>), S_semi >>

SampleLists == {L_function, L_for, L_forEmpty, L_if, L_loops, L_decl, L_expr}

\* s without its token number i, and with another token in its place
Without(s, i) == SubSeq(s, 1, i - 1) \o SubSeq(s, i + 1, Len(s))

Replaced(s, i, t) == [s EXCEPT ![i] = t]

\* the tokens put where another was expected
Noise == {S_rparen, K_fn, S_assign, S_unknown}

\* the samples, each sample with one token missing, and each with one token
\* replaced
DamagedLists ==
  SampleLists
    \cup {Without(s, i) : <<s, i>> \in UNION {{s} \X (1..Len(s)) : s \in SampleLists}}
    \cup {Replaced(x[1], x[2], t) :
            <<x, t>> \in (UNION {{s} \X (1..Len(s)) : s \in SampleLists}) \X Noise}

\* the length of the longest list of arbitrary tokens
MaxTokens == 3

ShortAlphabet == {K_fn, K_int, Ident(<<"a">>), S_lparen, S_lbrace, K_for}

RECURSIVE ListsUpTo(_)
ListsUpTo(n) ==
  IF n = 0 THEN {<<>>}
  ELSE ListsUpTo(n - 1)
         \cup {Append(s, t) : <<s, t>> \in {x \in ListsUpTo(n - 1) : Len(x) = n - 1} \X ShortAlphabet}

\* the token lists the parser is run on, each ending in end_of_file
TokenLists == {TokenList(s) : s \in DamagedLists \cup ListsUpTo(MaxTokens)}

\* main has the tokens of the Lexer
ParserInit ==
  /\ parser = NewParser(<<>>)
  /\ frames = <<>>
  /\ result = NullNode
  /\ pass = NoPass
  /\ LexerIdle
  /\ phase = "lexed"
  /\ ast = Program(<<>>)
  /\ errors_ = <<>>
  /\ code_ = <<>>
  /\ label_map_ = <<>>
  /\ ip = 0
  /\ stack_ = <<>>
  /\ call_stack_ = <<>>
  /\ error = ""
  /\ cout = <<>>
  /\ steps = 0

pipelineVars == <<errors_, code_, label_map_, ip, stack_, call_stack_, error, cout, steps>>

\* the parser as it stands
TheParser == [p |-> parser, frames |-> frames, ret |-> result, pass |-> pass]

ParserBecomes(m) ==
  /\ parser' = m.p
  /\ frames' = m.frames
  /\ result' = m.ret
  /\ pass' = m.pass
  /\ UNCHANGED lexerVars

\* main: Parser parser(tokens), and parser.ParseProgram() is called
ParseProgramCall ==
  /\ phase = "lexed"
  /\ phase' = "parsing"
  /\ \E tokens \in TokenLists : ParserBecomes(Parsing(NewParser(tokens)))
  /\ UNCHANGED <<ast, pipelineVars>>

\* a function is on the parser's call stack: ParserGoesOn is enabled, as every
\* step there pushes or pops an activation or moves the one on top
ParserRunning == phase = "parsing" /\ frames # <<>>

\* the function on top of the parser's call stack goes on to its next call
\* or to its return
ParserGoesOn ==
  /\ ParserRunning
  /\ ParserBecomes(ParserStep(TheParser))
  /\ UNCHANGED <<phase, ast, pipelineVars>>

\* ParseProgram has returned root to main
ParseProgramReturn ==
  /\ phase = "parsing"
  /\ frames = <<>>
  /\ phase' = "parsed"
  /\ ast' = result
  /\ UNCHANGED <<frontVars, pipelineVars>>

ParserNext == ParseProgramCall \/ ParserGoesOn \/ ParseProgramReturn

\* the parser alone, and the parser run to the end: main's thread goes on, so
\* each of the three actions is weakly fair (for ParserGoesOn with its
\* enabling condition written out)
ParserSpec == ParserInit /\ [][ParserNext]_vars

ParserFairSpec ==
  /\ ParserSpec
  /\ WF_vars(ParseProgramCall)
  /\ WF_vars(ParseProgramReturn)
  /\ []<>(~ParserRunning) \/ []<><<ParserGoesOn>>_vars

\* ------------------------------------------------- the lexer on sources

\* Longest source of the exhaustive part of the lexer's inputs.
MaxSource == 3

\* a letter of a keyword and another, a digit, a byte no token starts with, the
\* quote, the newline, a symbol that combines with '=', and a byte above 0x7f
SourceAlphabet == {"d", "o", "1", ".", "\"", "\n", "=", HighByte}

RECURSIVE SourcesUpTo(_)
SourcesUpTo(n) ==
  IF n = 0 THEN {<<>>}
  ELSE SourcesUpTo(n - 1)
         \cup {Append(s, c) : <<s, c>> \in {x \in SourcesUpTo(n - 1) : Len(x) = n - 1}
                                             \X SourceAlphabet}

\* longer sources: keywords and identifiers, a fraction, symbols of one and of
\* two bytes, a lone '!', a string literal over two lines, an unterminated one
SampleSources ==
  { <<"d", "o", " ", "d", "o", "1", "_">>,
    <<"1", ".", "5", "+", "1", ".">>,
    <<"!", "=", "!", "<", "=", ">">>,
    <<"i", "f", "(", "a", ")", "\n", " ", "!">>,
    <<"\"", "a", "\n", "b", "\"", ";">>,
    <<"x", "\t", "=", "\"", "a", "b">> }

Sources == SourcesUpTo(MaxSource) \cup SampleSources

\* what isspace and isdigit may answer in a run on src
CtypesFor(src) ==
  IF \E i \in 1..Len(src) : src[i] = HighByte
  THEN [space : BOOLEAN, digit : BOOLEAN]
  ELSE {CLocale}

\* the calls of NextToken the client makes at most: one for every byte, the one
\* that returns end_of_file, and one more
MaxReturned == MaxSource + 2

parserVars == <<parser, frames, result, pass>>

\* main: Lexer lexer(src)
LexerInit ==
  /\ \E src \in Sources : \E ctype \in CtypesFor(src) : lexer = NewLexer(src, ctype)
  /\ returned = <<>>
  /\ answer = NoAnswer
  /\ mode = "calls"
  /\ tokenized = <<>>
  /\ parser = NewParser(<<>>)
  /\ frames = <<>>
  /\ result = NullNode
  /\ pass = NoPass
  /\ phase = "lexing"
  /\ ast = Program(<<>>)
  /\ errors_ = <<>>
  /\ code_ = <<>>
  /\ label_map_ = <<>>
  /\ ip = 0
  /\ stack_ = <<>>
  /\ call_stack_ = <<>>
  /\ error = ""
  /\ cout = <<>>
  /\ steps = 0

\* the offset at which the lexer scans, or has scanned, for the token its next
\* call returns
ScanFrom == IF lexer.has_buffered_token_ THEN answer.from ELSE lexer.pos_

\* the client calls lexer.NextToken()
NextTokenCall ==
  /\ mode = "calls"
  /\ Len(returned) < MaxReturned
  /\ LET r == NextToken(lexer)
     IN /\ lexer' = r.l
        /\ returned' = Append(returned, r.tok)
        /\ answer' = Answer("NextToken", r.tok, ScanFrom)
  /\ UNCHANGED <<mode, tokenized, parserVars, phase, ast, pipelineVars>>

\* the client calls lexer.PeekToken()
PeekTokenCall ==
  /\ mode = "calls"
  /\ LET r == PeekToken(lexer)
     IN /\ lexer' = r.l
        /\ answer' = Answer("PeekToken", r.tok, ScanFrom)
  /\ UNCHANGED <<returned, mode, tokenized, parserVars, phase, ast, pipelineVars>>

\* the client calls lexer.Tokenize(), as main does, before any NextToken
TokenizeCall ==
  /\ mode = "calls"
  /\ returned = <<>>
  /\ mode' = "tokenizing"
  /\ UNCHANGED <<lexer, returned, answer, tokenized, parserVars, phase, ast, pipelineVars>>

\* a pass of the loop of Tokenize: NextToken and push_back, and the return
\* after end_of_file
TokenizeStep ==
  /\ mode = "tokenizing"
  /\ LET r == NextToken(lexer)
     IN /\ lexer' = r.l
        /\ tokenized' = Append(tokenized, r.tok)
        /\ answer' = Answer("NextToken", r.tok, ScanFrom)
        /\ mode' = IF r.tok.type = "END_OF_FILE" THEN "tokenized" ELSE "tokenizing"
  /\ UNCHANGED <<returned, parserVars, phase, ast, pipelineVars>>

LexerNext == NextTokenCall \/ PeekTokenCall \/ TokenizeCall \/ TokenizeStep

\* Tokenize has been called and has not returned: TokenizeStep is enabled, and
\* it lengthens tokenized
Tokenizing == mode = "tokenizing"

\* the lexer alone, and with Tokenize run to its return: the thread that
\* called Tokenize goes on, which is WF_vars(TokenizeStep) with the enabling
\* condition written out
LexerSpec == LexerInit /\ [][LexerNext]_vars

LexerFairSpec == LexerSpec /\ ([]<>(~Tokenizing) \/ []<><<TokenizeStep>>_vars)

\* ------------------------------------------------------------ properties

\* the analyzer produced no diagnostics for ast
Accepted == phase \notin {"parsed", "rejected"}

\* code_ holds the generated code
Generated == phase \notin {"parsed", "analyzed", "rejected"}

\* Run's loop is about to execute code_[ip]
InCode == phase = "running" /\ ip < Len(code_)

\* every node of the tree under n
RECURSIVE Nodes(_)
Nodes(n) ==
  IF IsNull(n) THEN {}
  ELSE {n} \cup UNION {Nodes(n.children[i]) : i \in 1..Len(n.children)}

\* the positions of the Function nodes among the children of root
FunctionsOf(root) == {j \in 1..Len(root.children) : root.children[j].kind = "Function"}

FunctionNames(root) == {root.children[j].text : j \in FunctionsOf(root)}

\* the index in the code of the LABEL that GenFunction emits for child j of
\* root: the length of the code of the children before it
EntryOf(root, j) == Len(GenNodes(SubSeq(root.children, 1, j - 1), 1, GenInit).code_)

\* the entry of the function called name (the analyzer accepts no two
\* functions of one name)
EntryOfName(root, name) ==
  EntryOf(root, CHOOSE j \in FunctionsOf(root) : root.children[j].text = name)

\* the instructions S stand in code_ from the instruction pointer on
AtCode(S) ==
  /\ phase = "running"
  /\ S # <<>>
  /\ ip + Len(S) <= Len(code_)
  /\ SubSeq(code_, ip + 1, ip + Len(S)) = S

\* the VM after n more iterations of Run's loop, every input being inp
RECURSIVE RunFor(_, _, _, _, _)
RunFor(code, lm, m, inp, n) ==
  IF n = 0 \/ m.status # "running" \/ ~Evaluated(m) THEN m
  ELSE IF m.ip >= Len(code) THEN RunOffEnd(m)
  ELSE RunFor(code, lm, Exec(code, lm, m, inp), inp, n - 1)

\* the VM is about to execute instruction target in a frame no deeper than
\* depth (a STORE outside every function creates the first frame)
Reached(m, target, depth) ==
  /\ m.status = "running"
  /\ m.ip = target
  /\ Len(m.call_stack_) <= Max(depth, 1)

\* the VM when it first reaches target at that depth, within fuel iterations
RECURSIVE RunTo(_, _, _, _, _, _, _)
RunTo(code, lm, m, inp, target, depth, fuel) ==
  IF fuel = 0 \/ m.status # "running" \/ ~Evaluated(m) THEN m
  ELSE IF Reached(m, target, depth) THEN m
  ELSE IF m.ip >= Len(code) THEN RunOffEnd(m)
  ELSE RunTo(code, lm, Exec(code, lm, m, inp), inp, target, depth, fuel - 1)

\* how many values the instruction pops before it pushes any
Pops(ins) ==
  CASE ins.op \in {"POP", "STORE", "NEW_ARRAY", "JZ"} \cup UnaryOps -> 1
    [] ins.op \in BinaryOps \cup {"LOAD_INDEX"} -> 2
    [] ins.op = "STORE_INDEX" -> IF ins.arg # <<>> THEN 2 ELSE 3
    [] ins.op = "CALL" /\ ins.arg \in {N_printInt, N_printDouble, N_printStr} -> 1
    [] OTHER -> 0

\* C1: for a program the analyzer accepts, at the start of every instruction
\* the operand stack holds the values the opcode pops, so Run never throws
\* 'stack underflow'.
C1_NoStackUnderflow ==
  Accepted =>
    /\ InCode => Len(stack_) >= Pops(Ins)
    /\ ~(phase = "aborted" /\ error = "stack underflow")

\* C2: when Run returns 0 (RET popped the last frame, or the instruction
\* pointer ran off the end) the operand stack is empty.
C2_StackEmptyAtExit == phase = "halted" => stack_ = <<>>

\* the frame on top of the call stack is the one Run pushed for main
TopIsMainSentinel == N_main \in DOMAIN label_map_ /\ Len(call_stack_) = 1

\* C3: a CALL of a user function pushes a frame whose return ip is the
\* instruction after the CALL and jumps to the function's label; the RET that
\* ends the invocation pops that frame and resumes at its return ip; a RET
\* makes Run return only when it pops the frame pushed for main.
C3_CallAndReturn ==
  [][ /\ (At({"CALL"}) /\ ~IsBuiltin(Ins.arg) /\ Ins.arg \in DOMAIN label_map_) =>
           /\ phase' = "running"
           /\ call_stack_' = Append(call_stack_, Frame(ip + 1, <<>>))
           /\ ip' = label_map_[Ins.arg]
      /\ (At({"RET"}) /\ call_stack_ # <<>> /\ ~TopIsMainSentinel) =>
           /\ phase' = "running"
           /\ call_stack_' = Front(call_stack_)
           /\ ip' = Last(call_stack_).ret_ip
      /\ (At({"RET"}) /\ phase' = "halted") => TopIsMainSentinel ]_vars

\* the next instruction is a CALL that Run treats as a call of a user function
AtUserCall == InCode /\ Ins.op = "CALL" /\ ~IsBuiltin(Ins.arg) /\ Ins.arg \in DOMAIN label_map_

\* the value a LOAD of name reads in a frame with these locals
LocalOrZero(locals, name) == IF name \in DOMAIN locals THEN locals[name] ELSE MakeInt(0)

\* LOAD, STORE and STORE_INDEX leave every frame under the top one as it is,
\* and LOAD pushes what the top frame holds
FrameLocal(m2) ==
  /\ Len(m2.call_stack_) = Len(call_stack_)
  /\ Front(m2.call_stack_) = Front(call_stack_)
  /\ (Ins.op = "LOAD") =>
       /\ m2.call_stack_ = call_stack_
       /\ m2.stack_ = Append(stack_, LocalOrZero(Last(call_stack_).locals, Ins.arg))

\* the callee that the CALL at ip starts has returned to the caller in m
CallerRestored(m) ==
  Reached(m, ip + 1, Len(call_stack_)) => m.call_stack_ = call_stack_

\* C4: a user CALL pushes a fresh frame with no locals; LOAD, STORE and
\* STORE_INDEX read and write only the frame on top of the call stack; when
\* the callee returns, every frame of the caller, arrays included, is what
\* it was just before the CALL.
C4_FreshFramePerCall ==
  /\ (InCode /\ Ins.op \in {"LOAD", "STORE", "STORE_INDEX"} /\ call_stack_ # <<>>) =>
       FrameLocal(Exec(code_, label_map_, M, 0))
  /\ AtUserCall =>
       /\ Exec(code_, label_map_, M, 0).call_stack_ = Append(call_stack_, Frame(ip + 1, <<>>))
       /\ \A inp \in 0..MaxInput :
            CallerRestored(RunTo(code_, label_map_, Exec(code_, label_map_, M, 0), inp,
                                 ip + 1, Len(call_stack_), MaxSteps))

\* C4 witness: in P_array, h(b) has returned into main after storing 7 into
\* its own b and 9 into its own a; main's b[0] is 4, a is 1, and c is h's 9.
C4_Returned ==
  /\ ast = P_array
  /\ phase = "running"
  /\ Len(call_stack_) = 1
  /\ <<"c">> \in DOMAIN call_stack_[1].locals
  /\ call_stack_[1].locals[<<"c">>] = MakeInt(9)
  /\ call_stack_[1].locals[<<"a">>] = MakeInt(1)
  /\ call_stack_[1].locals[<<"b">>].a = <<MakeInt(4), MakeInt(0)>>

\* the expressions a comma expression lists, left to right
RECURSIVE Flatten(_)
Flatten(e) ==
  IF e.kind # "CommaExpr" THEN <<e>>
  ELSE IF Len(e.children) = 2 THEN Flatten(e.children[1]) \o Flatten(e.children[2])
  ELSE <<>>

\* the arguments of a Call node, left to right
ArgsOf(c) == IF Len(c.children) < 2 THEN <<>> ELSE Flatten(c.children[2])

PureOperators == {<<"+">>, <<"-">>, <<"*">>}

\* integer expressions without calls or assignments: they leave one value
RECURSIVE Pure(_)
Pure(e) ==
  CASE e.kind = "Number" -> ~IsFloatingLiteral(e.text)
    [] e.kind = "Identifier" -> TRUE
    [] e.kind = "Unary" -> e.text = <<"-">> /\ Pure(e.children[1])
    [] e.kind = "Binary" ->
         e.text \in PureOperators /\ Pure(e.children[1]) /\ Pure(e.children[2])
    [] e.kind = "Index" -> e.children[1].kind = "Identifier" /\ Pure(e.children[2])
    [] OTHER -> FALSE

\* the integer a pure expression denotes in a frame with these locals
RECURSIVE IntOf(_, _)
IntOf(e, locals) ==
  CASE e.kind = "Number" -> stoll(e.text).v
    [] e.kind = "Identifier" -> AsInt(LocalOrZero(locals, e.text))
    [] e.kind = "Unary" -> 0 - IntOf(e.children[1], locals)
    [] e.kind = "Binary" ->
         LET l == IntOf(e.children[1], locals)
             r == IntOf(e.children[2], locals)
         IN IF e.text = <<"+">> THEN l + r
            ELSE IF e.text = <<"-">> THEN l - r
            ELSE l * r
    [] e.kind = "Index" ->
         LET arr == LocalOrZero(locals, e.children[1].text)
             i   == IntOf(e.children[2], locals)
         IN IF arr.type = "kArray" /\ i >= 0 /\ i < Len(arr.a) THEN AsInt(arr.a[i + 1])
            ELSE 0

\* the value a pure argument passes: a variable passes what it holds
ValueOf(e, locals) ==
  IF e.kind = "Identifier" THEN LocalOrZero(locals, e.text) ELSE MakeInt(IntOf(e, locals))

\* the code of expressions es one after the other
RECURSIVE CodeOfAll(_, _)
CodeOfAll(es, i) ==
  IF i > Len(es) THEN <<>>
  ELSE GenExpression(es[i], GenInit).code_ \o CodeOfAll(es, i + 1)

\* the locals of the frame the VM runs in
CurrentLocals == IF call_stack_ = <<>> THEN <<>> ELSE Last(call_stack_).locals

\* m is the VM after the entry STOREs of a call with these parameters and
\* arguments that started in the current state
Bound(m, params, args) ==
  /\ m.status = "running"
  /\ m.stack_ = stack_
  /\ Front(m.call_stack_) = call_stack_
  /\ DOMAIN Last(m.call_stack_).locals = {params[i] : i \in 1..Len(params)}
  /\ \A i \in 1..Len(params) :
       Last(m.call_stack_).locals[params[i]] = ValueOf(args[i], CurrentLocals)

\* the call c of function fn, whose code S starts at the instruction pointer,
\* evaluates its arguments in order and binds them
CallBinds(c, j, S) ==
  LET fn == ast.children[j]
      m1 == RunFor(code_, label_map_, M, 0, Len(S))
  IN /\ S = CodeOfAll(ArgsOf(c), 1) \o <<Instruction("CALL", fn.text)>>
     /\ (m1.status = "running" /\ m1.ip = EntryOf(ast, j)) =>
          Bound(RunFor(code_, label_map_, m1, 0, Len(ParamNames(fn)) + 1),
                ParamNames(fn), ArgsOf(c))

\* c is a call of the function at child j with as many pure arguments as the
\* function has parameters, at least one
IsCallOf(c, j) ==
  /\ c.kind = "Call"
  /\ c.children[1].text = ast.children[j].text
  /\ ParamNames(ast.children[j]) # <<>>
  /\ Len(ArgsOf(c)) = Len(ParamNames(ast.children[j]))
  /\ \A i \in 1..Len(ArgsOf(c)) : Pure(ArgsOf(c)[i])

\* C5: the code of a call f(a0, ..., an-1) is the code of a0, ..., an-1 in that
\* order and then CALL f; once the entry STOREs of f have run, the frame of the
\* callee binds each parameter to the value of its argument, the operand stack
\* is what it was before a0 was pushed, and the caller's frames are untouched.
C5_ArgumentsBound ==
  (Accepted /\ phase = "running") =>
    \A j \in FunctionsOf(ast) :
      \A c \in {n \in Nodes(ast) : IsCallOf(n, j)} :
        AtCode(GenExpression(c, GenInit).code_) =>
          CallBinds(c, j, GenExpression(c, GenInit).code_)

\* C5 witness: in P_args, c = f(a + 4, 3) has run the entry STOREs of f:
\* the callee's frame holds p = 5 and q = 3 and the operand stack is empty.
C5_Entered ==
  /\ ast = P_args
  /\ phase = "running"
  /\ ip = EntryOfName(ast, <<"f">>) + 3
  /\ Len(call_stack_) = 2
  /\ stack_ = <<>>
  /\ call_stack_[2].locals =
       SetLocal(SetLocal(<<>>, <<"p">>, MakeInt(5)), <<"q">>, MakeInt(3))

\* the names the analyzer declares in the global scope before its second pass
GlobalNames(root) ==
  {BuiltinSymbols[i].name : i \in 1..Len(BuiltinSymbols)} \cup FunctionNames(root)

\* Whether every Identifier under node names something declared in the scope
\* it stands in or an enclosing one: st.names are the names in scope, st.ok
\* tells whether every identifier so far resolved. A declarator puts its name
\* in scope; a block, a for statement and a function end their scope.
RECURSIVE Resolve(_, _), ResolveAll(_, _, _)
Resolve(node, st) ==
  CASE IsNull(node) \/ ~st.ok -> st
    [] node.kind = "Identifier" -> [st EXCEPT !.ok = node.text \in st.names]
    [] node.kind \in {"TypeNode", "FuncArg", "Number", "String"} -> st
    [] node.kind = "VarDecl" ->
         ResolveAll(node.children, 1, [st EXCEPT !.names = @ \cup {node.text}])
    [] node.kind \in {"Block", "For"} ->
         [ResolveAll(node.children, 1, st) EXCEPT !.names = st.names]
    [] node.kind = "Function" ->
         [ResolveAll(node.children, 1,
                     [st EXCEPT !.names = @ \cup {ParamNames(node)[i] :
                                                    i \in 1..Len(ParamNames(node))}])
            EXCEPT !.names = st.names]
    [] OTHER -> ResolveAll(node.children, 1, st)

ResolveAll(ch, i, st) ==
  IF i > Len(ch) \/ ~Evaluated(st) THEN st
  ELSE ResolveAll(ch, i + 1, Resolve(ch[i], st))

\* C6: when Analyze returns no diagnostics, every Identifier node of the AST,
\* wherever it stands, names a Symbol declared in the scope it stands in or an
\* enclosing one.
C6_IdentifiersDeclared ==
  Accepted => Resolve(ast, [names |-> GlobalNames(ast), ok |-> TRUE]).ok

\* the indices of the LABEL instructions of code that define name
LabelsOf(code, name) == {k \in 1..Len(code) : code[k] = Instruction("LABEL", name)}

\* C7: in the code of an accepted program every CALL names a built-in or a
\* label the code defines, Run never throws 'unknown function label', and a
\* CALL of a function the program defines continues at that function's entry.
C7_CallsResolve ==
  /\ Generated =>
       \A k \in 1..Len(code_) :
         code_[k].op = "CALL" =>
           IsBuiltin(code_[k].arg) \/ LabelsOf(code_, code_[k].arg) # {}
  /\ ~(phase = "aborted" /\ error = "unknown function label")
  /\ (InCode /\ Ins.op = "CALL" /\ Ins.arg \in FunctionNames(ast)) =>
       Exec(code_, label_map_, M, 0).ip = EntryOfName(ast, Ins.arg)

\* C8: every label a JMP or JZ of the generated code names is defined by
\* exactly one LABEL instruction of that code.
C8_JumpLabelsUnique ==
  Generated =>
    \A k \in 1..Len(code_) :
      code_[k].op \in {"JMP", "JZ"} => Cardinality(LabelsOf(code_, code_[k].arg)) = 1

\* the expression statements of ast whose expression is (call = TRUE) or is
\* not (call = FALSE) a Call or an Assign
ExprStmts(call) ==
  {n \in Nodes(ast) : /\ n.kind = "ExprStmt"
                      /\ n.children # <<>>
                      /\ (n.children[1].kind \in {"Call", "Assign"}) = call}

\* whenever the instructions S, which start at the instruction pointer, have
\* run to their end, the operand stack has the size it has now
StackSizeKept(S) ==
  \A inp \in 0..MaxInput :
    LET r == RunTo(code_, label_map_, M, inp, ip + Len(S), Len(call_stack_), MaxSteps)
    IN Reached(r, ip + Len(S), Len(call_stack_)) => Len(r.stack_) = Len(stack_)

\* C9: in an accepted program, after the instructions of an expression
\* statement whose expression is a Call or an Assign, the operand stack has
\* the size it had on entry to the statement.
C9_CallAssignStmtBalanced ==
  Accepted =>
    \A n \in ExprStmts(TRUE) :
      AtCode(GenExprStmt(n, GenInit).code_) => StackSizeKept(GenExprStmt(n, GenInit).code_)

\* C10: in an accepted program, after the instructions of an expression
\* statement whose expression is neither a Call nor an Assign, the POP that
\* ends them included, the operand stack has the size it had on entry.
C10_ValueStmtBalanced ==
  Accepted =>
    \A n \in ExprStmts(FALSE) :
      AtCode(GenExprStmt(n, GenInit).code_) => StackSizeKept(GenExprStmt(n, GenInit).code_)

\* the three situations in which Run is to throw, by the text of what()
FatalErrors ==
  { "unknown label for JMP", "unknown label for JZ", "unknown function label",
    "unhandled opcode", "stack underflow" }

\* the opcodes whose data errors are to yield zero values
DataOps == {"LOAD", "LOAD_INDEX", "STORE_INDEX", "DIV", "MOD"}

\* C11: Run throws only for an unknown label, an unhandled opcode or a pop
\* from an empty stack; a LOAD, an indexed load or store, a division or a
\* modulus that finds its operands on the stack never throws.
C11_OnlyThreeAborts ==
  /\ phase = "aborted" => error \in FatalErrors
  /\ (InCode /\ Ins.op \in DataOps /\ Len(stack_) >= Pops(Ins)) =>
       Exec(code_, label_map_, M, 0).status # "aborted"

\* node with every Identifier called from renamed to to
RECURSIVE Renamed(_, _, _)
Renamed(node, from, to) ==
  IF node.kind = "Identifier" /\ node.text = from THEN [node EXCEPT !.text = to]
  ELSE [node EXCEPT !.children =
          [i \in 1..Len(node.children) |-> Renamed(node.children[i], from, to)]]

\* how many Identifier nodes under node are called name
RECURSIVE Occurrences(_, _)
Occurrences(node, name) ==
  IF node.kind = "Identifier" THEN (IF node.text = name THEN 1 ELSE 0)
  ELSE LET sum[i \in 0..Len(node.children)] ==
             IF i = 0 THEN 0 ELSE sum[i - 1] + Occurrences(node.children[i], name)
       IN sum[Len(node.children)]

\* the only erroneous subexpressions of ast are its uses of the undeclared
\* u: with the declared int variable a in their place Analyze has no complaint
OnlyUndeclaredU ==
  /\ Occurrences(ast, <<"u">>) > 0
  /\ Analyze(Renamed(ast, <<"u">>, <<"a">>)).errors_ = <<>>

\* C12: diagnostics do not cascade: when the erroneous subexpressions of a
\* program are k uses of an undeclared identifier, Analyze returns at most k
\* diagnostics, each of them the one for that identifier; no enclosing
\* construct adds one and no use is diagnosed twice.
C12_NoCascade ==
  (phase # "parsed" /\ OnlyUndeclaredU) =>
    /\ Len(errors_) <= Occurrences(ast, <<"u">>)
    /\ \A i \in 1..Len(errors_) :
         errors_[i] = <<"Undeclared variable: ">> \o <<"u">>

ArithmeticOps == {<<"+">>, <<"-">>, <<"*">>, <<"/">>, <<"%">>}

\* the declarations among the statements ch[i..] of a function's body
RECURSIVE DeclareLocals(_, _, _)
DeclareLocals(ch, i, a) ==
  IF i > Len(ch) THEN a
  ELSE DeclareLocals(ch, i + 1,
                     IF ch[i].kind = "VarDeclList" THEN CheckVarDeclList(ch[i], a) ELSE a)

\* the analyzer inside the body of child j of root, a Function, with the
\* functions, the parameters and the body's own declarations in scope
InBodyOf(root, j) ==
  LET fn == root.children[j]
      a0 == [SemaInit EXCEPT !.scopes = DeclareAll(BuiltinSymbols, 1, <<EmptyScope>>)]
      a1 == DeclareArgs(fn.children, 2, EnterScope(Predeclare(root.children, 1, a0)))
  IN DeclareLocals(Last(fn.children).children, 1, EnterScope(a1))

\* the arithmetic Binary nodes of child j of root whose operands CheckExpression
\* types l and r there
ArithmeticNodes(root, j, l, r) ==
  { n \in Nodes(root.children[j]) :
      /\ n.kind = "Binary" /\ n.text \in ArithmeticOps
      /\ LET lt == CheckExpression(n.children[1], InBodyOf(root, j))
         IN /\ lt.t = l
            /\ CheckExpression(n.children[2], lt.a).t = r }

\* C13: an arithmetic Binary node whose operands are typed int or double gets
\* type double when at least one operand is double and int otherwise, and the
\* node adds no diagnostic to those of its operands.
C13_ArithmeticResultType ==
  \A j \in FunctionsOf(ast) : \A l, r \in {"INT", "DOUBLE"} :
    \A n \in ArithmeticNodes(ast, j, l, r) :
      LET a   == InBodyOf(ast, j)
          lt  == CheckExpression(n.children[1], a)
          rt  == CheckExpression(n.children[2], lt.a)
          res == CheckExpression(n, a)
      IN /\ res.t = (IF l = "DOUBLE" \/ r = "DOUBLE" THEN "DOUBLE" ELSE "INT")
         /\ res.a.errors_ = rt.a.errors_

\* an analysed program with a % whose left operand is int and right double,
\* one with both double and one with both int
C13_MixedOperands ==
  /\ phase # "parsed"
  /\ \E j \in FunctionsOf(ast) :
       /\ \E n \in ArithmeticNodes(ast, j, "INT", "DOUBLE") : n.text = <<"%">>
       /\ ArithmeticNodes(ast, j, "DOUBLE", "INT") # {}
       /\ ArithmeticNodes(ast, j, "DOUBLE", "DOUBLE") # {}
       /\ ArithmeticNodes(ast, j, "INT", "INT") # {}

\* the diagnostics of a sequence that report a duplicate declaration
IsDuplicate(msg) == msg[1] \in {"Duplicate variable: ", "Duplicate function: "}

Duplicates(errs) == SelectSeq(errs, IsDuplicate)

\* a declaration of name, reported under the heading what when the innermost
\* scope, whose names are st.inner, has the name already
Redeclare(st, what, name) ==
  IF name \in st.inner THEN [st EXCEPT !.out = Append(@, <<what>> \o name)]
  ELSE [st EXCEPT !.inner = @ \cup {name}]

RECURSIVE RedeclareAll(_, _, _, _)
RedeclareAll(ch, i, n, st) ==
  IF i > n THEN st
  ELSE RedeclareAll(ch, i + 1, n, Redeclare(st, "Duplicate variable: ", ch[i].text))

\* the duplicate declarations under node by the block structure of the
\* language: a function, a block and a for statement each open a scope
RECURSIVE ExpectedDuplicates(_, _)
RECURSIVE ExpectedInList(_, _, _)
ExpectedInList(ch, i, st) ==
  IF i > Len(ch) THEN st ELSE ExpectedInList(ch, i + 1, ExpectedDuplicates(ch[i], st))

ExpectedDuplicates(node, st) ==
  LET fresh == [st EXCEPT !.inner = {}]
      close(r) == [r EXCEPT !.inner = st.inner]
  IN CASE node.kind = "VarDeclList" ->
            RedeclareAll(node.children, 2, Len(node.children), st)
       [] node.kind = "Block" -> close(ExpectedInList(node.children, 1, fresh))
       [] node.kind = "For" -> close(ExpectedInList(node.children, 1, fresh))
       [] node.kind = "Function" ->
            close(ExpectedDuplicates(Last(node.children),
                    RedeclareAll(node.children, 2, Len(node.children) - 1, fresh)))
       [] node.kind \in {"While", "DoWhile", "If", "ElseIf"} ->
            ExpectedInList(node.children, 1, st)
       [] OTHER -> st

\* the functions among ch[i..] declared in the global scope, in order
RECURSIVE ExpectedFunctions(_, _, _)
ExpectedFunctions(ch, i, st) ==
  IF i > Len(ch) THEN st
  ELSE ExpectedFunctions(ch, i + 1,
         IF ch[i].kind = "Function"
         THEN Redeclare(st, "Duplicate function: ", ch[i].text) ELSE st)

\* the duplicate diagnostics of a whole program: all of the first pass, then
\* those of the second
ExpectedOfProgram(root) ==
  LET builtins == {BuiltinSymbols[i].name : i \in 1..Len(BuiltinSymbols)}
      first == ExpectedFunctions(root.children, 1, [inner |-> builtins, out |-> <<>>])
      second == ExpectedInList(root.children, 1, [first EXCEPT !.out = <<>>])
  IN first.out \o second.out

\* a declarator called name, and the names Lookup finds from scopes
Declarator(name) == VarDecl(name, TRUE, <<>>)

Visible(scopes) == UNION {DOMAIN scopes[i] : i \in 1..Len(scopes)}

\* Declare, Lookup and ExitScope at a, for a declaration of name as a string
\* array: in the current scope it fails exactly when that scope has the name;
\* in a scope entered for it it succeeds, hides the outer declaration, and
\* the outer one is found again once that scope is left
ScopeLaws(a, name) ==
  LET here  == DeclareVar(a, Declarator(name), "STRING")
      inner == DeclareVar(EnterScope(a), Declarator(name), "STRING")
      mine  == Symbol(name, "STRING", TRUE, FALSE, <<>>, <<>>)
  IN /\ IF HasSymbol(Last(a.scopes), name)
        THEN /\ here.errors_ = Append(a.errors_, <<"Duplicate variable: ">> \o name)
             /\ here.scopes = a.scopes
        ELSE /\ here.errors_ = a.errors_
             /\ Lookup(here.scopes, name) = [found |-> TRUE, sym |-> mine]
     /\ inner.errors_ = a.errors_
     /\ Lookup(inner.scopes, name) = [found |-> TRUE, sym |-> mine]
     /\ Lookup(ExitScope(inner).scopes, name) = Lookup(a.scopes, name)

\* C14: a declaration is reported as a duplicate exactly when its name is
\* already declared in the innermost scope; a name of an enclosing scope, a
\* parameter in the function's body or a for-init variable in the loop's body
\* included, is redeclared without a diagnostic, and Lookup finds the
\* innermost declaration until its scope is left and the outer one after.
C14_InnermostScopeOnly ==
  phase \in {"analyzed", "rejected"} =>
    /\ Duplicates(errors_) = ExpectedOfProgram(ast)
    /\ \A j \in FunctionsOf(ast) :
         \A name \in Visible(InBodyOf(ast, j).scopes) \cup {<<"z">>} :
           ScopeLaws(InBodyOf(ast, j), name)

\* analysed: a program that redeclares a parameter in the function's body and
\* a for-init variable in the loop's body and gets no diagnostic
C14_Shadowed ==
  /\ phase = "analyzed" /\ errors_ = <<>>
  /\ \E j \in FunctionsOf(ast) :
       LET fn == ast.children[j]
           body == Last(fn.children)
       IN /\ Len(fn.children) > 2
          /\ \E d \in Nodes(body) : d.kind = "VarDecl" /\ d.text = fn.children[2].text
          /\ \E f \in Nodes(body) :
               /\ f.kind = "For" /\ f.children[1].kind = "VarDeclList"
               /\ \E d \in Nodes(f.children[4]) :
                    d.kind = "VarDecl" /\ d.text = f.children[1].children[2].text

\* the diagnostics of a sequence that report a stray break, continue or return
IsStray(msg) == msg \in {<<"break/continue outside loop">>, <<"return outside of function">>}

\* the stray jumps under node in source order, by the structure of the tree:
\* inLoop inside the body of a While, DoWhile or For, inFn inside a Function
RECURSIVE ExpectedStray(_, _, _)
RECURSIVE ExpectedStrayIn(_, _, _, _)
ExpectedStrayIn(ch, i, inLoop, inFn) ==
  IF i > Len(ch) THEN <<>>
  ELSE ExpectedStray(ch[i], inLoop, inFn) \o ExpectedStrayIn(ch, i + 1, inLoop, inFn)

ExpectedStray(node, inLoop, inFn) ==
  CASE node.kind \in {"Break", "Continue"} ->
         IF inLoop THEN <<>> ELSE <<<<"break/continue outside loop">>>>
    [] node.kind = "Return" ->
         IF inFn THEN <<>> ELSE <<<<"return outside of function">>>>
    [] node.kind = "While" -> ExpectedStrayIn(node.children, 2, TRUE, inFn)
    [] node.kind = "DoWhile" -> ExpectedStrayIn(Front(node.children), 1, TRUE, inFn)
    [] node.kind = "For" ->
         ExpectedStray(node.children[1], inLoop, inFn)
           \o ExpectedStray(node.children[4], TRUE, inFn)
    [] node.kind = "Function" -> ExpectedStray(Last(node.children), inLoop, TRUE)
    [] node.kind \in {"Program", "Block", "If", "ElseIf"} ->
         ExpectedStrayIn(node.children, 1, inLoop, inFn)
    [] OTHER -> <<>>

StatementKinds ==
  {"Block", "VarDeclList", "Return", "Break", "Continue", "While", "DoWhile", "For",
   "If", "ElseIf", "ExprStmt"}

\* C15: 'break/continue outside loop' is reported for exactly the Break and
\* Continue nodes outside every loop body and 'return outside of function' for
\* exactly the Return nodes outside every Function; every statement leaves the
\* loop depth and the in-function flag as it found them, so the depth is never
\* negative, and when Analyze returns the depth is 0 and the flag false.
C15_JumpsAndCounters ==
  phase \in {"analyzed", "rejected"} =>
    /\ SelectSeq(errors_, IsStray) = ExpectedStray(ast, FALSE, FALSE)
    /\ Analyze(ast).loopDepth = 0
    /\ ~Analyze(ast).inFunction
    /\ \A j \in FunctionsOf(ast) : \A s \in Nodes(ast.children[j]) : \A d \in {0, 1} :
         s.kind \in StatementKinds =>
           LET a == [InBodyOf(ast, j) EXCEPT !.loopDepth = d, !.inFunction = TRUE]
               b == CheckStatement(s, a)
           IN b.loopDepth = d /\ b.inFunction

\* analysed: a program with stray jumps at top level and in main, and with
\* jumps inside the bodies of a while, a do-while and a for
C15_StrayAndNested ==
  /\ phase = "rejected"
  /\ Len(SelectSeq(errors_, IsStray)) = 4
  /\ \E n \in Nodes(ast) : n.kind = "While" /\ ExpectedStray(n, FALSE, FALSE) = <<>>
                           /\ \E b \in Nodes(n) : b.kind = "Break"
  /\ \E n \in Nodes(ast) : n.kind = "DoWhile" /\ \E b \in Nodes(n) : b.kind = "Continue"
  /\ \E n \in Nodes(ast) : n.kind = "For" /\ \E b \in Nodes(n) : b.kind = "Continue"

\* ----------------------------------------------------- the parser's progress

\* the token types the parser calls Expect with
ExpectedTypes ==
  {"KW_FN", "IDENTIFIER", "LPAREN", "RPAREN", "LBRACE", "RBRACE", "RBRACKET", "SEMICOLON",
   "KW_IF", "KW_WHILE", "KW_DO", "KW_FOR", "KW_RETURN", "KW_BREAK", "KW_CONTINUE"}
    \cup TypeKeywords

\* q is p with exactly one more diagnostic, and one token further unless p is
\* at end_of_file
Recovered(p, q) ==
  /\ Len(q.errors_) = Len(p.errors_) + 1
  /\ SubSeq(q.errors_, 1, Len(p.errors_)) = p.errors_
  /\ q.tokens_ = p.tokens_
  /\ q.pos_ = p.pos_ + (IF IsAtEnd(p) THEN 0 ELSE 1)

\* what a failed Expect and the last branch of ParsePrimary do at p
RecoveryLaws(p) ==
  /\ \A t \in ExpectedTypes :
       ParserPeek(p).type # t => Recovered(p, Expect(p, t, "expected token").p)
  /\ ParserPeek(p).type \notin {"NUMBER", "STRING_LITERAL", "IDENTIFIER", "LPAREN"}
       => Recovered(p, UnexpectedToken(p))

\* the token position is within the tokens, and short of the last of them
\* unless that is end_of_file
PositionInRange ==
  /\ parser.pos_ \in 0..Len(parser.tokens_)
  /\ parser.pos_ < Len(parser.tokens_)

\* the diagnostics of the direct calls of AddError
IsUnexpectedToken(e) == \E k \in 1..Len(e) : e[k] = "unexpected token in expression: '"

IsFailedExpect(e) ==
  \A k \in 1..Len(e) :
    e[k] \notin {"unexpected token in expression: '", "expected return type after 'fn'",
                 "expected argument type",
                 "left side of assignment must be variable or array element"}

\* C16 as worded, its safety part: the position stays within the tokens, a
\* failed Expect and an unexpected token in a primary expression append one
\* diagnostic and consume one token unless at end_of_file, and every pass
\* through a loop body of the parser consumes at least one token.
C16_EveryPassConsumes ==
  /\ phase = "parsing" => PositionInRange /\ RecoveryLaws(parser)
  /\ pass.loop # "" => pass.consumed >= 1

\* C16, amended: ParseProgram returns for every token list that ends in
\* end_of_file; the token position never decreases and stays within the
\* tokens; a failed Expect and an unexpected token in a primary expression
\* append exactly one diagnostic and consume exactly one token unless the
\* current token is end_of_file (then none); and every pass through a loop
\* body that is followed by another pass of that loop consumes at least one
\* token (a pass that leaves its loop by break may consume none).
C16_ParseProgramTerminates ==
  /\ <>(phase = "parsed")
  /\ [](phase = "parsing" => PositionInRange /\ RecoveryLaws(parser))
  /\ [](pass.again => pass.consumed >= 1)
  /\ [](ParserRunning => ParserStep(TheParser) # TheParser)
  /\ [][parser.pos_' >= parser.pos_]_vars

\* parsed to the end_of_file token: a token list with an unexpected token in
\* an expression, a failed Expect at a token and one at end_of_file, and loops
\* that went round
C16_RecoveredAndParsed ==
  /\ phase = "parsed"
  /\ parser.pos_ = Len(parser.tokens_) - 1
  /\ pass.again /\ pass.consumed >= 1
  /\ \E i \in 1..Len(parser.errors_) : IsUnexpectedToken(parser.errors_[i])
  /\ \E i \in 1..Len(parser.errors_) :
       IsFailedExpect(parser.errors_[i]) /\ Last(parser.errors_[i]) = "'"
  /\ \E i \in 1..Len(parser.errors_) :
       IsFailedExpect(parser.errors_[i]) /\ Last(parser.errors_[i]) # "'"
  /\ \E n \in Nodes(ast) : n.kind = "Block" /\ Len(n.children) >= 1

\* a pass of a while (true) loop that consumed no token: the loop was left
C16_PassWithoutToken == pass.loop # "" /\ pass.consumed = 0 /\ ~pass.again

\* ------------------------------------------------------ the shape of the AST

\* a For node has its four slots
ForShape(n) == Len(n.children) = 4

\* a Function node is [TypeNode, FuncArg..., Block], each FuncArg holding one
\* TypeNode
FunctionShape(n) ==
  /\ Len(n.children) >= 2
  /\ n.children[1].kind = "TypeNode"
  /\ Last(n.children).kind = "Block"
  /\ \A i \in 2..Len(n.children) - 1 :
       /\ n.children[i].kind = "FuncArg"
       /\ Len(n.children[i].children) = 1
       /\ n.children[i].children[1].kind = "TypeNode"

\* C17: in the AST ParseProgram returns, with or without syntax errors, the
\* root is a Program node, every For node has exactly four child slots (a slot
\* may be empty), and every Function node has at least two children: child[0]
\* a TypeNode, the last a Block, and every child in between a FuncArg with
\* exactly one TypeNode child.
C17_ShapeOfTheAst ==
  phase = "parsed" =>
    /\ ast.kind = "Program"
    /\ \A n \in Nodes(ast) :
         /\ n.kind = "For" => ForShape(n)
         /\ n.kind = "Function" => FunctionShape(n)

\* parsed with syntax errors: a Function with parameters whose body holds a For
\* with empty slots
C17_ForInFunctionWithErrors ==
  /\ phase = "parsed"
  /\ parser.errors_ # <<>>
  /\ \E f \in Nodes(ast) :
       /\ f.kind = "Function" /\ Len(f.children) >= 3
       /\ \E n \in Nodes(f) : n.kind = "For" /\ \E i \in 1..3 : IsNull(n.children[i])

\* ------------------------------------------------------- the token stream

\* the list Tokenize returns on a lexer just constructed on the source, on
\* which PeekToken is never called
Stream == Tokenize(NewLexer(lexer.src_, lexer.ctype)).tokens

\* ts is the stream as far as it goes, then end_of_file again and again
IsStreamPrefix(ts, full) ==
  \A i \in 1..Len(ts) : ts[i] = full[IF i < Len(full) THEN i ELSE Len(full)]

\* the tokens handed out so far and the tokens still to come are the stream,
\* however many calls of PeekToken came in between
StreamKept ==
  /\ mode = "calls" =>
       /\ IsStreamPrefix(returned, Stream)
       /\ Len(returned) < Len(Stream) => returned \o Tokenize(lexer).tokens = Stream
  /\ mode = "tokenizing" => tokenized \o Tokenize(lexer).tokens = Stream
  /\ mode = "tokenized" => tokenized = Stream

\* the call after a PeekToken returns the token PeekToken returned, and a
\* PeekToken leaves the tokens to come as they were
PeekLaw ==
  /\ answer.call = "PeekToken" => answer'.token = answer.token
  /\ answer'.call = "PeekToken" => Tokenize(lexer').tokens = Tokenize(lexer).tokens

\* C18: PeekToken does not change the token stream: PeekToken called again
\* returns the same token, the NextToken after it returns that token, and the
\* tokens NextToken returns and the list Tokenize returns are those of a
\* lexer on which PeekToken is never called.
C18_PeekTokenKeepsTheStream == [](StreamKept) /\ [][PeekLaw]_vars

\* NextToken has returned the token a PeekToken had buffered, and a PeekToken
\* after it has buffered the next one, which is not end_of_file
C18_PeekedBetweenTokens ==
  /\ mode = "calls"
  /\ Len(returned) >= 1
  /\ answer.call = "PeekToken"
  /\ lexer.has_buffered_token_
  /\ answer.token.type # "END_OF_FILE"
  /\ answer.token # returned[Len(returned)]

\* ------------------------------------------------------ the lexer's progress

\* a step in which NextToken scans the source: a call by the client, by
\* PeekToken or by Tokenize while no token is buffered
ScanStep == ~lexer.has_buffered_token_ /\ ~(mode = "calls" /\ mode' = "tokenizing")

\* such a call consumes at least one byte while input remains and returns
\* end_of_file once it is exhausted
ScanLaw ==
  ScanStep =>
    /\ ~IsEnd(lexer) => lexer'.pos_ > lexer.pos_
    /\ IsEnd(lexer) => answer'.token.type = "END_OF_FILE"

\* the list Tokenize returned ends in end_of_file and has no other
TokenizedLaw ==
  mode = "tokenized" =>
    /\ tokenized # <<>>
    /\ \A i \in 1..Len(tokenized) : tokenized[i].type = "END_OF_FILE" <=> i = Len(tokenized)

\* the bytes of the alphabet no token starts with
StartNoToken == {".", HighByte}

RECURSIVE UnknownTokens(_)
\* the types and texts of one unknown token for every byte of s that is not
\* white space
UnknownTokens(s) ==
  IF s = <<>> THEN <<>>
  ELSE IF IsSpace(s[1]) THEN UnknownTokens(Tail(s))
  ELSE <<<<"UNKNOWN", <<s[1]>>>>>> \o UnknownTokens(Tail(s))

\* a source of such bytes and white space is lexed to one unknown token for
\* each of the bytes, and end_of_file
UnknownLaw ==
  (\A i \in 1..Len(lexer.src_) : lexer.src_[i] \in StartNoToken \/ IsSpace(lexer.src_[i])) =>
    [i \in 1..Len(Stream) |-> <<Stream[i].type, Stream[i].text>>]
      = UnknownTokens(lexer.src_) \o <<<<"END_OF_FILE", <<>>>>>>

C19_TokenizeTerminates ==
  /\ Tokenizing ~> (mode = "tokenized")
  /\ []TokenizedLaw
  /\ [][ScanLaw]_vars

\* --------------------------------------------------- the lexer's position

\* the one-based line and column of the byte at offset n of src, the end of
\* src for n = Len(src)
PositionOf(src, n) ==
  LET newlines == {i \in 1..n : src[i] = "\n"}
      lineStart == IF newlines = {} THEN 0
                   ELSE CHOOSE i \in newlines : \A j \in newlines : j <= i
  IN [line |-> 1 + Cardinality(newlines), col |-> n - lineStart + 1]

\* the offset is within the input and (line_, col_) is the position of the
\* next unconsumed byte
PositionLaw ==
  /\ lexer.pos_ <= Len(lexer.src_)
  /\ lexer.line_ = PositionOf(lexer.src_, lexer.pos_).line
  /\ lexer.col_ = PositionOf(lexer.src_, lexer.pos_).col

\* the offset of the first byte of the token the last call returned: the
\* first byte after the white space at the offset the scan began at
FirstByte == SkipWhitespace([lexer EXCEPT !.pos_ = answer.from]).pos_

\* the column of the token the last call returned, end_of_file too, is the
\* column of its first byte
ColumnLaw ==
  answer.call # "" =>
    /\ FirstByte <= Len(lexer.src_)
    /\ answer.token.col = PositionOf(lexer.src_, FirstByte).col

\* C20: after every NextToken call, on every input, an unterminated string
\* literal included, the offset is at most the length of the input and
\* (line, col) is the one-based position of the next unconsumed byte; the
\* column of every token returned, end_of_file included, is the column at
\* which its first byte was seen.
C20_PositionOfTheNextByte == PositionLaw /\ ColumnLaw

\* what of C20 holds: the same while no string literal has run into the end
\* of the input
C20_PositionBeforeTheEnd == lexer.pos_ <= Len(lexer.src_) => PositionLaw /\ ColumnLaw

\* a string literal has run into the end of the input and end_of_file was
\* returned after it
C20_PastTheEnd ==
  /\ lexer.pos_ = Len(lexer.src_) + 1
  /\ answer.token.type = "END_OF_FILE"
  /\ answer.token.col = lexer.col_

\* ------------------------------------------------------- indexed loads

\* the length LOAD_INDEX compares the index with: of an array its elements, of
\* a string its bytes; an int, a double and none have no element
IndexedLength(v) ==
  CASE v.type = "kArray" -> Len(v.a)
    [] v.type = "kString" -> Len(v.s)
    [] OTHER -> 0

\* the next instruction is a LOAD_INDEX whose index is outside the base
AtLoadOutOfRange ==
  /\ InCode
  /\ Ins.op = "LOAD_INDEX"
  /\ Len(stack_) >= 2
  /\ (AsInt(Peek(M, 1)) < 0 \/ AsInt(Peek(M, 1)) >= IndexedLength(Peek(M, 2)))

\* C21: LOAD_INDEX with an index that is negative or not less than the length
\* of the indexed value pops the base and the index and pushes integer zero,
\* whatever the kind of the base.
C21_LoadOutOfRangeIsZero ==
  AtLoadOutOfRange =>
    Exec(code_, label_map_, M, 0).stack_
      = Append(SubSeq(stack_, 1, Len(stack_) - 2), MakeInt(0))

\* what of C21 holds: the same for every base that is not a string
C21_LoadOutOfRangeNoString ==
  (AtLoadOutOfRange /\ Peek(M, 2).type # "kString") =>
    Exec(code_, label_map_, M, 0).stack_
      = Append(SubSeq(stack_, 1, Len(stack_) - 2), MakeInt(0))

\* ------------------------------------------------------ indexed stores

\* the next instruction is STORE_INDEX n with value and index on the stack and
\* a current frame
AtStoreIndex ==
  /\ InCode
  /\ Ins.op = "STORE_INDEX"
  /\ Ins.arg # <<>>
  /\ Len(stack_) >= 2
  /\ call_stack_ # <<>>

\* the elements local n of the current frame has: none when n is missing or
\* is no array
ElementsOf(locals, n) ==
  IF n \in DOMAIN locals /\ locals[n].type = "kArray" THEN locals[n].a ELSE <<>>

\* m2 is the VM after STORE_INDEX n wrote v at index i >= 0
StoredAt(m2, n, i, v) ==
  LET old == Last(call_stack_).locals
      new == Last(m2.call_stack_).locals
      was == ElementsOf(old, n)
  IN /\ m2.status = "running"
     /\ m2.stack_ = SubSeq(stack_, 1, Len(stack_) - 2)
     /\ Len(m2.call_stack_) = Len(call_stack_)
     /\ Front(m2.call_stack_) = Front(call_stack_)
     /\ Last(m2.call_stack_).ret_ip = Last(call_stack_).ret_ip
     /\ DOMAIN new = DOMAIN old \cup {n}
     /\ \A k \in DOMAIN old \ {n} : new[k] = old[k]
     /\ new[n].type = "kArray"
     /\ Len(new[n].a) = Max(Len(was), i + 1)
     /\ \A j \in 1..Len(new[n].a) :
          new[n].a[j] = IF j = i + 1 THEN v ELSE IF j <= Len(was) THEN was[j] ELSE MakeInt(0)

\* m2 is the VM after STORE_INDEX n with an index below zero: value and index
\* are popped and no element of n is written
NothingStored(m2, n) ==
  /\ m2.stack_ = SubSeq(stack_, 1, Len(stack_) - 2)
  /\ ElementsOf(Last(m2.call_stack_).locals, n) = ElementsOf(Last(call_stack_).locals, n)

\* C22: STORE_INDEX n with value v and index i >= 0 in a current frame pops v
\* and i and pushes nothing; local n of that frame becomes an array of length
\* max(previous length, i + 1) with element i = v, the other old elements as
\* they were and the new ones integer 0 (n is created if missing); no other
\* local and no other frame changes; with i < 0 no element of n is written.
C22_StoreIndexGrows ==
  AtStoreIndex =>
    IF AsInt(Peek(M, 1)) >= 0
    THEN StoredAt(Exec(code_, label_map_, M, 0), Ins.arg, AsInt(Peek(M, 1)), Peek(M, 2))
    ELSE NothingStored(Exec(code_, label_map_, M, 0), Ins.arg)

\* C22 witness: in P_storeIndex main has grown b from 2 to 4 elements by
\* b[3] = 5, skipped b[-1] = 6, created the missing z by z[1] = 3, and is left
\* with b[1] = a
C22_GrownAndCreated ==
  /\ ast = P_storeIndex
  /\ phase = "running"
  /\ Len(call_stack_) = 1
  /\ <<"z">> \in DOMAIN call_stack_[1].locals
  /\ call_stack_[1].locals[<<"z">>].a = <<MakeInt(0), MakeInt(3)>>
  /\ call_stack_[1].locals[<<"b">>].a = <<MakeInt(0), MakeInt(1), MakeInt(0), MakeInt(5)>>

\* ---------------------------------------------------- array declarators

\* the array declarators of ast
ArrayDeclarators == {v \in Nodes(ast) : v.kind = "VarDecl" /\ v.isArray}

\* the array-size expression of declarator var: its only child, or the one
\* after the initializer
HasSize(var) == var.children # <<>>

SizeOf(var) == Last(var.children)

\* the code the declarator is to be lowered to
ArrayDeclCode(var) ==
  (IF HasSize(var) THEN GenExpression(SizeOf(var), GenInit).code_
   ELSE <<Instruction("PUSH_INT", <<"0">>)>>)
    \o <<Instruction("NEW_ARRAY", <<>>), Instruction("STORE", var.text)>>

\* after the instructions S, which start at the instruction pointer, local
\* var.text of the current frame is an array whose length is the value of
\* the size expression
ArrayDeclared(var, S) ==
  LET m2 == RunFor(code_, label_map_, M, 0, Len(S))
      n  == IF HasSize(var) THEN IntOf(SizeOf(var), CurrentLocals) ELSE 0
  IN /\ m2.status = "running"
     /\ m2.call_stack_ # <<>>
     /\ var.text \in DOMAIN Last(m2.call_stack_).locals
     /\ Last(m2.call_stack_).locals[var.text] = MakeArray(n)

\* the size expression is one whose value the model computes, and not negative
SizeKnown(var) ==
  ~HasSize(var) \/ (Pure(SizeOf(var)) /\ IntOf(SizeOf(var), CurrentLocals) >= 0)

\* C23: for every array declarator the generator emits the code of the
\* array-size expression (PUSH_INT 0 if there is none), NEW_ARRAY and STORE
\* name, and after these instructions the local is an array whose length is
\* the value of the size expression; also for a declarator with initializer
\* and array suffix, whose children are [init, size].
C23_ArrayOfDeclaredSize ==
  \A var \in ArrayDeclarators :
    LET S == GenVarDecls(<<var>>, 1, GenInit).code_
    IN /\ S = ArrayDeclCode(var)
       /\ (AtCode(S) /\ SizeKnown(var)) => ArrayDeclared(var, S)

\* what of C23 holds: the same for the declarators with no initializer
C23_ArrayWithoutInitializer ==
  \A var \in ArrayDeclarators :
    Len(var.children) <= 1 =>
      LET S == GenVarDecls(<<var>>, 1, GenInit).code_
      IN /\ S = ArrayDeclCode(var)
         /\ (AtCode(S) /\ SizeKnown(var)) => ArrayDeclared(var, S)

\* main of P_arrayDecl has declared w[n + 1] with three elements and
\* v = 1 [3] with one
C23_InitializerAsSize ==
  /\ ast = P_arrayDecl
  /\ phase = "running"
  /\ Len(call_stack_) = 1
  /\ <<"v">> \in DOMAIN call_stack_[1].locals
  /\ call_stack_[1].locals[<<"w">>] = MakeArray(3)
  /\ call_stack_[1].locals[<<"v">>] = MakeArray(1)

\* ------------------------------------------------ statements and their code

\* the paths from node n down to its nodes: the child indices, outermost first
RECURSIVE Paths(_)
Paths(n) ==
  IF IsNull(n) THEN {}
  ELSE {<<>>} \cup UNION {{<<i>> \o p : p \in Paths(n.children[i])} : i \in 1..Len(n.children)}

RECURSIVE NodeAt(_, _)
NodeAt(n, p) == IF p = <<>> THEN n ELSE NodeAt(n.children[Head(p)], Tail(p))

\* n with the node at path p replaced by r
RECURSIVE ReplaceAt(_, _, _)
ReplaceAt(n, p, r) ==
  IF p = <<>> THEN r
  ELSE [n EXCEPT !.children[Head(p)] = ReplaceAt(n.children[Head(p)], Tail(p), r)]

\* a statement that no program has and that needs no label: 777;
Marker == ExprStmt(Num(<<"7", "7", "7">>))

\* the number of instructions Generate emits before the code of the statement
\* at path p of ast: those it emits before the marker put in its place
CodeStart(p) ==
  LET marked == Generate(ReplaceAt(ast, p, Marker)).code_
  IN (CHOOSE k \in 1..Len(marked) : marked[k] = Instruction("PUSH_INT", <<"7", "7", "7">>)) - 1

\* the number of instructions of the statement at path p
CodeLength(p) ==
  Len(Generate(ast).code_) - Len(Generate(ReplaceAt(ast, p, Marker)).code_) + 2

LoopKinds == {"While", "DoWhile", "For"}

\* the paths of ast to nodes of these kinds
PathsTo(kinds) == {p \in Paths(ast) : NodeAt(ast, p).kind \in kinds}

\* the paths of the loops that enclose the node at path p
LoopsAround(p) ==
  {SubSeq(p, 1, k) : k \in {j \in 0..(Len(p) - 1) : NodeAt(ast, SubSeq(p, 1, j)).kind \in LoopKinds}}

\* the innermost of them
InnermostLoop(p) == CHOOSE q \in LoopsAround(p) : \A r \in LoopsAround(p) : Len(r) <= Len(q)

\* the break and continue statements whose innermost loop is the one at path l
JumpsOf(l, kind) ==
  {p \in PathsTo({kind}) : LoopsAround(p) # {} /\ InnermostLoop(p) = l}

\* s is the beginning of t
IsPrefix(s, t) == Len(s) <= Len(t) /\ SubSeq(t, 1, Len(s)) = s

\* the label of a LABEL instruction at offset k of the code (from 0) is
\* where a jump to it goes
LabelAt(k, name) ==
  /\ k < Len(code_)
  /\ code_[k + 1] = Instruction("LABEL", name)
  /\ name \in DOMAIN label_map_ => label_map_[name] = k

\* the code of the init of a For as a statement that runs the init would be
ForInitCode(n) ==
  IF IsNull(n.children[1]) THEN <<>>
  ELSE IF n.children[1].kind = "VarDeclList" THEN GenStatement(n.children[1], GenInit).code_
  ELSE GenExpression(n.children[1], GenInit).code_

ForStepCode(n) == GenForStep(n.children[3], GenInit).code_

\* the offsets of the start, step and end LABEL of the For at path l, when
\* its code is init, LABEL start, ..., LABEL step, step, JMP start, LABEL end
ForStartAt(l) == CodeStart(l) + Len(ForInitCode(NodeAt(ast, l)))
ForStepAt(l)  == CodeStart(l) + CodeLength(l) - 3 - Len(ForStepCode(NodeAt(ast, l)))
ForEndAt(l)   == CodeStart(l) + CodeLength(l) - 1

\* the instruction at offset k is a LABEL, and a jump to its label goes there
IsLabel(k) ==
  /\ k >= 0 /\ k < Len(code_)
  /\ code_[k + 1].op = "LABEL"
  /\ code_[k + 1].arg \in DOMAIN label_map_
  /\ label_map_[code_[k + 1].arg] = k

\* the statement at path p is one JMP to the LABEL at offset k
JumpsTo(p, k) ==
  /\ CodeLength(p) = 1
  /\ code_[CodeStart(p) + 1] = Instruction("JMP", code_[k + 1].arg)

\* the init of the For at path l stands once, right before its start label
ForInitOnce(l) ==
  /\ IsPrefix(ForInitCode(NodeAt(ast, l)), SubSeq(code_, CodeStart(l) + 1, Len(code_)))
  /\ IsLabel(ForStartAt(l))
  /\ code_[ForEndAt(l)] = Instruction("JMP", code_[ForStartAt(l) + 1].arg)

\* its continues jump to the step, its breaks to the first instruction after
\* the loop
ForJumps(l) ==
  /\ IsLabel(ForStepAt(l))
  /\ IsLabel(ForEndAt(l))
  /\ \A p \in JumpsOf(l, "Continue") : JumpsTo(p, ForStepAt(l))
  /\ \A p \in JumpsOf(l, "Break") : JumpsTo(p, ForEndAt(l))

\* the VM is at the step of the For at path l
AtForStep(l) ==
  /\ phase = "running"
  /\ ip = ForStepAt(l) + 1
  /\ AtCode(ForStepCode(NodeAt(ast, l)))

ForLayout ==
  phase = "constructed" => \A l \in PathsTo({"For"}) : ForInitOnce(l) /\ ForJumps(l)

ForJumpsRight ==
  phase = "constructed" => \A l \in PathsTo({"For"}) : ForJumps(l)

ForStepBalanced ==
  \A l \in PathsTo({"For"}) : AtForStep(l) => StackSizeKept(ForStepCode(NodeAt(ast, l)))

\* C24: in the code of every for loop the init stands once before the start
\* label the loop jumps back to, every continue of the loop jumps to the step
\* label and every break to the end label after the loop, and one evaluation
\* of the step leaves the operand stack the size it had.
C24_ForLoopCode ==
  /\ ForLayout
  /\ ForStepBalanced

\* the state of the generator when it comes to the body (While, DoWhile, For)
\* or to the block of a condition (If, ElseIf) of node, which it entered in
\* state g
WhileBodyEntry(node, g) ==
  LET start == NewLabel(g)
      end   == NewLabel(Bump(g))
  IN Emit(GenExpression(node.children[1],
                        Emit(PushLoop(Bump(Bump(g)), end, start), "LABEL", start)),
          "JZ", end)

DoWhileBodyEntry(node, g) ==
  Emit(PushLoop(Bump(Bump(g)), NewLabel(Bump(g)), NewLabel(g)), "LABEL", NewLabel(g))

ForInitEntry(node, g) ==
  PushLoop(Bump(Bump(Bump(g))), NewLabel(Bump(Bump(g))), NewLabel(Bump(g)))

ForBodyEntry(node, g) ==
  GenForCond(node.children[2], NewLabel(Bump(Bump(g))),
             Emit(GenStatement(node.children[1], ForInitEntry(node, g)), "LABEL", NewLabel(g)))

IfBlockEntry(node, g) ==
  Emit(GenExpression(node.children[1], Bump(Bump(g))), "JZ", NewLabel(Bump(g)))

\* the state before children[i] of an If, i >= 3: after the block and the
\* children before it
IfRestEntry(node, i, g) ==
  LET g2 == Emit(GenStatement(node.children[2], IfBlockEntry(node, g)), "JMP", NewLabel(g))
  IN GenIfRest(SubSeq(node.children, 1, i - 1), 3, NewLabel(g),
               Emit(g2, "LABEL", NewLabel(Bump(g))))

ElseIfBlockEntry(node, g) ==
  Emit(GenExpression(node.children[1], Bump(g)), "JZ", NewLabel(g))

FunctionBodyEntry(node, g) ==
  EmitParamStores(ParamNames(node), Len(ParamNames(node)), Emit(g, "LABEL", node.text))

\* the state of the generator when it comes to children[i] of node, which it
\* entered in state g
ChildEntry(node, i, g) ==
  CASE node.kind = "Program" -> GenNodes(SubSeq(node.children, 1, i - 1), 1, g)
    [] node.kind = "Function" -> FunctionBodyEntry(node, g)
    [] node.kind = "Block" -> GenStmtList(SubSeq(node.children, 1, i - 1), 1, g)
    [] node.kind = "While" -> WhileBodyEntry(node, g)
    [] node.kind = "DoWhile" -> DoWhileBodyEntry(node, g)
    [] node.kind = "For" -> IF i = 1 THEN ForInitEntry(node, g) ELSE ForBodyEntry(node, g)
    [] node.kind = "If" -> IF i = 2 THEN IfBlockEntry(node, g) ELSE IfRestEntry(node, i, g)
    [] node.kind = "ElseIf" -> ElseIfBlockEntry(node, g)
    [] OTHER -> g

\* the state of the generator when it comes to the statement at path p of n
RECURSIVE GenAt(_, _, _)
GenAt(n, p, g) ==
  IF p = <<>> THEN g
  ELSE GenAt(n.children[Head(p)], Tail(p), ChildEntry(n, Head(p), g))

\* the paths of the statements GenStatement is called on
StatementPaths == PathsTo(StatementKinds \ {"ElseIf"})

\* the offsets of the LABEL a continue and a break of the loop at path l are
\* to jump to
ContinueAt(l) == IF NodeAt(ast, l).kind = "For" THEN ForStepAt(l) ELSE CodeStart(l)
BreakAt(l)    == CodeStart(l) + CodeLength(l) - 1

\* the labels of the loop at path l
LoopLabels(l) ==
  {code_[k + 1].arg : k \in {j \in CodeStart(l)..BreakAt(l) :
      j \in {ContinueAt(l), BreakAt(l), CodeStart(l)} \/
      (NodeAt(ast, l).kind = "For" /\ j = ForStartAt(l))}}

\* the statement at path p, a break or a continue inside a loop, jumps to the
\* label of its innermost loop, which is the label of no other loop
JumpsToInnermost(p) ==
  LET l == InnermostLoop(p)
      k == IF NodeAt(ast, p).kind = "Break" THEN BreakAt(l) ELSE ContinueAt(l)
  IN /\ code_[k + 1].op = "LABEL"
     /\ JumpsTo(p, k)
     /\ \A m \in PathsTo(LoopKinds) \ {l} : code_[k + 1].arg \notin LoopLabels(m)

\* the depth of both label stacks when the generator comes to the statement
\* at path p is the number of loops around it
DepthIsNesting(p) ==
  LET g == GenAt(ast, p, GenInit)
  IN /\ Len(g.code_) = CodeStart(p)
     /\ Len(g.breakLabels_) = Cardinality(LoopsAround(p))
     /\ Len(g.continueLabels_) = Cardinality(LoopsAround(p))

\* C25: in the code of an accepted program every break and continue inside a
\* loop is a jump to the end label, respectively the continue label, of the
\* innermost loop around it and of no other loop; at every statement both
\* label stacks are as deep as the loops around the statement are many; and
\* both are empty when Generate returns.
C25_JumpsToInnermostLoop ==
  phase = "constructed" =>
    /\ \A p \in PathsTo({"Break", "Continue"}) : LoopsAround(p) # {} => JumpsToInnermost(p)
    /\ \A p \in StatementPaths : DepthIsNesting(p)
    /\ Generate(ast).breakLabels_ = <<>>
    /\ Generate(ast).continueLabels_ = <<>>

\* a program whose code is generated has a break three loops deep, and a
\* break and a continue that follow a finished inner loop in an outer loop
C25_JumpAfterInnerLoop ==
  /\ phase = "constructed"
  /\ \E p \in PathsTo({"Break"}) : Cardinality(LoopsAround(p)) = 3
  /\ \A kind \in {"Break", "Continue"} :
       \E p \in PathsTo({kind}), m \in PathsTo(LoopKinds) :
         /\ LoopsAround(p) # {} /\ LoopsAround(m) # {}
         /\ InnermostLoop(m) = InnermostLoop(p)
         /\ CodeStart(m) < CodeStart(p)
         /\ Cardinality({NodeAt(ast, l).kind : l \in LoopsAround(p) \cup {m}}) = 3

\* the VM's states from m until it first reaches target at that depth, within
\* fuel iterations of Run's loop
RECURSIVE Trace(_, _, _, _, _, _, _)
Trace(code, lm, m, inp, target, depth, fuel) ==
  IF fuel = 0 \/ m.status # "running" \/ ~Evaluated(m) \/ Reached(m, target, depth)
     \/ m.ip >= Len(code)
  THEN <<m>>
  ELSE <<m>> \o Trace(code, lm, Exec(code, lm, m, inp), inp, target, depth, fuel - 1)

\* the children of the If at path p that have a condition: the If itself
\* (its block is children[2]) and its ElseIf children; and its plain else
CondsOf(p) ==
  {2} \cup {i \in 3..Len(NodeAt(ast, p).children) : NodeAt(ast, p).children[i].kind = "ElseIf"}

ElsesOf(p) ==
  {i \in 3..Len(NodeAt(ast, p).children) : NodeAt(ast, p).children[i].kind # "ElseIf"}

\* the offset of the JZ that tests condition i of the chain at path p, and of
\* the first instruction of its else i
JzAt(p, i) == (IF i = 2 THEN CodeStart(p \o <<2>>) ELSE CodeStart(p \o <<i, 2>>)) - 1

ElseAt(p, i) == CodeStart(p \o <<i>>)

\* the offset of the chain's end label
EndLabelAt(p) == CodeStart(p) + CodeLength(p) - 1

\* the chains of ast no block of which jumps out of the chain
Chains ==
  {p \in PathsTo({"If"}) :
     \A n \in Nodes(NodeAt(ast, p)) : n.kind \notin {"Break", "Continue", "Return"}}

\* the places of trace tr where the VM is at offset k in the frame of depth d
PlacesAt(tr, k, d) ==
  {j \in 1..Len(tr) : tr[j].ip = k /\ Len(tr[j].call_stack_) = d /\ tr[j].status = "running"}

\* the conditions trace tr evaluates, those it finds non-zero, the blocks and
\* the elses it runs
Evaluates(tr, p, d) == {i \in CondsOf(p) : PlacesAt(tr, JzAt(p, i), d) # {}}

FindsNonZero(tr, p, d) ==
  {i \in CondsOf(p) : \E j \in PlacesAt(tr, JzAt(p, i), d) :
                        tr[j].stack_ # <<>> /\ ~IsZero(Last(tr[j].stack_))}

RunsBlocks(tr, p, d) == {i \in CondsOf(p) : PlacesAt(tr, JzAt(p, i) + 1, d) # {}}

RunsElses(tr, p, d) ==
  {i \in ElsesOf(p) : ElseAt(p, i) < EndLabelAt(p) /\ PlacesAt(tr, ElseAt(p, i), d) # {}}

\* trace tr, which starts at the chain at path p with n values on the stack
\* in the frame of depth d, goes through the chain in order
ChainInOrder(tr, p, d, n) ==
  /\ 2 \in Evaluates(tr, p, d)
  /\ \A i \in Evaluates(tr, p, d) :
       /\ Cardinality(PlacesAt(tr, JzAt(p, i), d)) = 1
       /\ \A j \in PlacesAt(tr, JzAt(p, i), d) : Len(tr[j].stack_) = n + 1
       /\ \A j \in CondsOf(p) : j < i => j \in Evaluates(tr, p, d) \ FindsNonZero(tr, p, d)
  /\ RunsBlocks(tr, p, d) = FindsNonZero(tr, p, d)
  /\ Cardinality(RunsBlocks(tr, p, d)) <= 1
  /\ RunsElses(tr, p, d) # {} => FindsNonZero(tr, p, d) = {}

\* and, when it leaves the chain, has done all of it
ChainDone(tr, p, d, n) ==
  Reached(Last(tr), EndLabelAt(p) + 1, d) =>
    /\ Len(Last(tr).stack_) = n
    /\ FindsNonZero(tr, p, d) = {} =>
         /\ Evaluates(tr, p, d) = CondsOf(p)
         /\ RunsElses(tr, p, d) = {i \in ElsesOf(p) : ElseAt(p, i) < EndLabelAt(p)}

\* the VM is at the first instruction of the chain at path p
AtChain(p) == phase = "running" /\ ip = CodeStart(p) /\ call_stack_ # <<>>

ChainTrace(p, inp) ==
  Trace(code_, label_map_, M, inp, EndLabelAt(p) + 1, Len(call_stack_), MaxSteps)

\* the conditions of the chain at path p that are assignments
AssignConds(p) ==
  {i \in CondsOf(p) :
     (IF i = 2 THEN NodeAt(ast, p).children[1]
      ELSE NodeAt(ast, p).children[i].children[1]).kind = "Assign"}

\* C26: from the first instruction of an if / else-if / else chain whose
\* blocks do not jump out of it, the conditions are evaluated in source order,
\* each once and each leaving its value for the test, until the first
\* non-zero one; the block of that condition and no other runs, or the else
\* when every condition is zero; and the VM comes to the instruction after
\* the end label with the operand stack the size it had at the start.
C26_ChainRunsOneBlock ==
  \A p \in Chains :
    AtChain(p) =>
      \A inp \in 0..MaxInput :
        /\ ChainInOrder(ChainTrace(p, inp), p, Len(call_stack_), Len(stack_))
        /\ ChainDone(ChainTrace(p, inp), p, Len(call_stack_), Len(stack_))

\* the same of the chains no condition of which is an assignment
ChainsOfValues ==
  \A p \in Chains :
    AtChain(p) /\ AssignConds(p) = {} =>
      \A inp \in 0..MaxInput :
        /\ ChainInOrder(ChainTrace(p, inp), p, Len(call_stack_), Len(stack_))
        /\ ChainDone(ChainTrace(p, inp), p, Len(call_stack_), Len(stack_))

\* the tag of the Values of a static type
TagOf(t) == IF t = "DOUBLE" THEN "kDouble" ELSE "kInt"

\* the VM runs an instruction of child j of ast, a Function
InFunctionCode(j) ==
  /\ phase = "running"
  /\ ip >= EntryOf(ast, j)
  /\ ip < EntryOf(ast, j) + Len(GenFunction(ast.children[j], GenInit).code_)

\* the scalar variables and the arithmetic expressions of child j of ast
ScalarsAndArithmetic(j) ==
  { n \in Nodes(Last(ast.children[j].children)) :
      \/ n.kind = "Binary" /\ n.text \in ArithmeticOps
      \/ /\ n.kind = "Identifier"
         /\ Lookup(InBodyOf(ast, j).scopes, n.text).found
         /\ ~Lookup(InBodyOf(ast, j).scopes, n.text).sym.isArray
         /\ ~Lookup(InBodyOf(ast, j).scopes, n.text).sym.isFunction }

\* those of them the analyzer types t
TypedNodes(j, t) ==
  {n \in ScalarsAndArithmetic(j) : CheckExpression(n, InBodyOf(ast, j)).t = t}

\* whenever the instructions S, which start at the instruction pointer, have
\* run to their end, the value on top of the operand stack has this tag
LeavesTag(S, tag) ==
  \A inp \in 0..MaxInput :
    LET r == RunTo(code_, label_map_, M, inp, ip + Len(S), Len(call_stack_), MaxSteps)
    IN Reached(r, ip + Len(S), Len(call_stack_)) =>
         r.stack_ # <<>> /\ Last(r.stack_).type = tag

\* C27: in an accepted program the value the VM computes for a scalar
\* variable or an arithmetic expression that the analyzer types double
\* carries the double tag, and the int tag when the analyzer types it int.
C27_TagsAgreeWithTypes ==
  Accepted =>
    \A j \in FunctionsOf(ast) : \A t \in {"INT", "DOUBLE"} : \A n \in TypedNodes(j, t) :
      InFunctionCode(j) /\ AtCode(GenExpression(n, GenInit).code_) =>
        LeavesTag(GenExpression(n, GenInit).code_, TagOf(t))

\* the same of what the analyzer types int
IntTagsAgree ==
  Accepted =>
    \A j \in FunctionsOf(ast) : \A n \in TypedNodes(j, "INT") :
      InFunctionCode(j) /\ AtCode(GenExpression(n, GenInit).code_) =>
        LeavesTag(GenExpression(n, GenInit).code_, "kInt")

\* a scalar declarator whose initializer is an integer literal
IsLiteralInit(v) ==
  /\ ~v.isArray
  /\ Len(v.children) = 1
  /\ v.children[1].kind = "Number"
  /\ ~IsFloatingLiteral(v.children[1].text)

\* the scalar variables a top-level statement of ast declares with an integer
\* literal as initializer: the statement's position, the name, the literal
TopLevelInits ==
  UNION { { [at |-> i, name |-> ast.children[i].children[k].text,
             value |-> ast.children[i].children[k].children[1].text] :
              k \in {k \in 2..Len(ast.children[i].children) :
                       IsLiteralInit(ast.children[i].children[k])} } :
          i \in {i \in 1..Len(ast.children) : ast.children[i].kind = "VarDeclList"} }

\* the names child j of ast, a Function, declares itself, and the names ast
\* assigns to
LocalNames(j) ==
  {n.text : n \in {n \in Nodes(ast.children[j]) : n.kind \in {"VarDecl", "FuncArg"}}}

AssignedNames ==
  {n.children[1].text : n \in {n \in Nodes(ast) : n.kind = "Assign"}}

\* the VM is about to load the top-level variable g inside child j of ast, a
\* function that follows the declaration and has no variable of that name
LoadsGlobal(g, j) ==
  /\ g.at < j
  /\ g.name \notin LocalNames(j) \cup AssignedNames
  /\ InFunctionCode(j)
  /\ AtCode(<<Instruction("LOAD", g.name)>>)

\* C28: in an accepted program a LOAD, inside a function, of a variable that a
\* top-level statement before the function declares and initialises with an
\* integer literal, and that nothing assigns to, pushes that integer.
C28_GlobalKeepsItsValue ==
  Accepted =>
    \A g \in TopLevelInits : \A j \in FunctionsOf(ast) :
      LoadsGlobal(g, j) =>
        Last(Exec(code_, label_map_, M, 0).stack_) = MakeInt(stoll(g.value).v)

\* the offset of the first instruction of the condition of the DoWhile at
\* path l: after its start label and the code of its body
DoWhileCondAt(l) == CodeStart(l) + 1 + CodeLength(l \o <<1>>)

\* the VM is about to execute the continue at path p
AtJump(p) == phase = "running" /\ ip = CodeStart(p) /\ CodeLength(p) = 1

\* C29: a continue executed in the body of a do-while loop takes the VM to the
\* loop's condition, so that the condition is evaluated before the body runs
\* again.
C29_DoWhileContinueTestsCondition ==
  \A l \in PathsTo({"DoWhile"}) : \A p \in JumpsOf(l, "Continue") :
    AtJump(p) => Exec(code_, label_map_, M, 0).ip = DoWhileCondAt(l)

\* where it takes the VM instead: to the start label, before the body
DoWhileContinueRunsBody ==
  \A l \in PathsTo({"DoWhile"}) : \A p \in JumpsOf(l, "Continue") :
    AtJump(p) => Exec(code_, label_map_, M, 0).ip = CodeStart(l)

\* the analyzer at the start of the body of child j of root, a Function: the
\* functions and the parameters in scope, none of the body's declarations yet
AtBodyOf(root, j) ==
  LET a0 == [SemaInit EXCEPT !.scopes = DeclareAll(BuiltinSymbols, 1, <<EmptyScope>>)]
  IN EnterScope(DeclareArgs(root.children[j].children, 2,
                            EnterScope(Predeclare(root.children, 1, a0))))

\* var is an array declarator with a size that the analyzer types int there
\* without a diagnostic
HasIntSize(var, a) ==
  /\ var.isArray
  /\ Len(var.children) = 1
  /\ CheckExpression(var.children[1], a).t = "INT"
  /\ CheckExpression(var.children[1], a).a.errors_ = a.errors_

\* the declarations 'T name[size];' of one array of these element types, the
\* size typed int, in the body of child j of ast
ArrayDeclsOf(j, types) ==
  { n \in Nodes(Last(ast.children[j].children)) :
      /\ n.kind = "VarDeclList"
      /\ Len(n.children) = 2
      /\ n.children[1].text \in types
      /\ HasIntSize(n.children[2], AtBodyOf(ast, j)) }

ArraysAccepted(types) ==
  phase # "parsed" =>
    \A j \in FunctionsOf(ast) : \A n \in ArrayDeclsOf(j, types) :
      CheckVarDeclList(n, AtBodyOf(ast, j)).errors_ = AtBodyOf(ast, j).errors_

\* C30: the analyzer adds no diagnostic for a declaration 'T name[size];'
\* whose size has type int, for T any of int, char, double and string.
C30_ArraySizeNotAnInitializer ==
  ArraysAccepted({T_int, T_char, T_double, T_string})

\* the same for the element types int and double alone
IntAndDoubleArraysAccepted ==
  ArraysAccepted({T_int, T_double})

====
